---- MODULE Spec2Model ----
(***************************************************************************)
(* Verification model of the lease-ingestion pipeline                      *)
(* (src/src/ingestion/ingest_pipeline.py, IngestionPipeline.run) and of    *)
(* the collaborators it drives: parser, chunker, structured extractor,     *)
(* enricher, embedding provider, vector index and relational store.        *)
(*                                                                         *)
(* One behaviour is one call of run(file_path).  The run is a sequential   *)
(* program; pc is its position, and every call to an external service is   *)
(* one step whose outcome (return or raise) the environment chooses.       *)
(***************************************************************************)
EXTENDS Integers, Sequences, FiniteSets, TLC

(***************************************************************************)
(* Bounds of the model.                                                    *)
(***************************************************************************)
\* Largest number of chunks the chunker returns for a document.
MaxChunks == 3
\* Largest configured PipelineConfig.embedding_batch_size (default 50).
MaxEmbeddingBatch == 2
\* The upsert batch size, `batch_size = 100` in run, scaled down so that a
\* document of MaxChunks chunks spans several upsert batches.
batch_size == 2

(***************************************************************************)
(* Program constants.                                                      *)
(***************************************************************************)
\* max_retries = 3 of both retry loops.
max_retries == 3

\* The values the external services can hand back.
\* Bound on the number of chunks that enter orphan merging.
MaxSegments == 4

\* config/settings.py ORPHAN_CHUNK_MIN_TOKENS
ORPHAN_CHUNK_MIN_TOKENS == 25

\* chunker.py: max_iterations = 10
max_iterations == 10

\* config/settings.py MAX_CHUNK_TOKENS, SECONDARY_CHUNK_SIZE (characters),
\* SECONDARY_CHUNK_OVERLAP (characters)
MAX_CHUNK_TOKENS == 1000
SECONDARY_CHUNK_SIZE == 800
SECONDARY_CHUNK_OVERLAP == 100

\* chunker.py: _is_orphan_chunk(text, min_words=5)
min_words == 5

\* Bound on the number of header segments of a text that chunk is given.
MaxHeaderDocs == 2

\* Bound on the batch_size a ChunkEnricher is built with (5 by default).
MaxEnrichmentBatch == 2

\* Bound on the number of insert_lease calls made in one behaviour.
MaxCalls == 3

None == "None"
LeaseRecords == {"lease_a", "lease_b"}
EnricherModes == {"llm", "rule-based", "none"}
DocStem == "lease_doc"
document_name == DocStem

\* Exceptions, by the text str(e) gives for them.
ParseError == "parse failed"
ExtractError == "extraction failed"
EnrichError == "'NoneType' object has no attribute 'enrich_chunks'"
StoreError == "database error"

\* PipelineConfig: the fields run reads.
Configs ==
  [enable_enrichment : BOOLEAN,
   enricher : EnricherModes,
   embedding_batch_size : 1..MaxEmbeddingBatch]

VARIABLES
  config,                    \* self.config and the enricher get_enricher chose
  pc,                        \* position of run
  full_text,                 \* number of segments of the parsed text
  chunks,                    \* chunker output
  lease,                     \* structured extractor output
  enriched_chunks,
  all_embeddings,
  failed_embedding_indices,
  vectors_to_upsert,
  failed_vectors,
  i,                         \* start of the current batch (0-based)
  attempt,                   \* loop variable of the retry loop
  tries,                     \* history: calls made for the current batch
  emb_outcome,               \* history: "ok"/"failed" per embedding batch
  ups_outcome,               \* history: "ok"/"failed" per upsert batch
  backoff_secs,              \* seconds of the backoff sleep in progress, 0 if none
  embed_sent,                \* history: the batches given to embed_documents
  upsert_sent,               \* history: the batches given to index.upsert
  index,                     \* vector index: id -> vector record
  leases,                    \* relational store: document_name -> lease data
  clause_rows,               \* relational store: lease names with clause rows
  stages,                    \* history: stages begun so far, in order
  called,                    \* history: external services called so far
  parse_calls,               \* history: calls of parser.parse_file
  extract_calls,             \* history: calls of extractor.extract
  result,                    \* the PipelineResult returned, None before
  returned,                  \* number of PipelineResults returned
  raised,                    \* TRUE when an exception left run
  preliminary_chunks,        \* chunker: the chunks before orphan merging
  chunks_to_process,         \* chunker: the list the current pass scans
  iteration,                 \* chunker: passes of the merge loop made so far
  any_merges,                \* chunker: did the last pass merge anything
  final_chunks,              \* chunker: the list chunk returns
  chunk_pc,                  \* chunker: "off", "merge", "final" or "done"
  leases_table,              \* database: committed rows of table leases
  rent_schedule,             \* database: committed rows of table rent_schedule
  sqlite_sequence,           \* database: AUTOINCREMENT counter of each table
  connections,               \* database: the insert_lease call of each caller
  calls_made,                \* database: insert_lease calls begun so far
  namespace,                 \* index: the vectors the namespace holds
  runs,                      \* index: the upsert stage of each pipeline run
  last_upsert,               \* history: id -> the vector last upserted under it
  deletes,                   \* history: the delete_by_document calls that returned
  chunker,                   \* chunker: the parameters the instance holds
  header_docs,               \* chunker: what the header splitter made of the text
  chunk_call,                \* chunker: which call of chunk on this text, 1 or 2
  first_result,              \* history: the list the first call returned
  raw_text,                  \* chunker: the text chunk is called on
  cleaned_text,              \* chunker: what _clean_text returned
  enricher,                  \* enricher: what get_enricher returned
  enriched,                  \* enricher: the list enrich_chunks_async builds
  enrich_i,                  \* enricher: start of the current batch (0-based)
  tasks,                     \* enricher: the calls of the batch being gathered
  enrich_pc,                 \* enricher: "off", "loop", "gather", "sleep", "done"
  returned_order,            \* history: chunk indices in the order the calls returned
  pending_files,             \* watcher: IngestionHandler._pending_files
  startup_files,             \* watcher: names the handler ignores
  ingestion_logs,            \* watcher: rows of table ingestion_logs
  input_folder,              \* watcher: names of the files in the input folder
  processed_folder,          \* watcher: names of the files in the processed folder
  process_count,             \* watcher: calls of process_file made
  last_call,                 \* history: the last call of process_file
  queued_count,              \* watcher: files on_created has queued
  last_queued,               \* history: the file on_created queued last
  succeeded                  \* history: files whose pipeline run succeeded

pipelineVars ==
  <<config, pc, full_text, chunks, lease, enriched_chunks, all_embeddings,
    failed_embedding_indices, vectors_to_upsert, failed_vectors, i, attempt,
    tries, emb_outcome, ups_outcome, backoff_secs, embed_sent, upsert_sent,
    index, leases, clause_rows, stages, called,
    parse_calls, extract_calls, result, returned, raised>>

\* The text of a call, where it is followed (SpecCleaning).
textVars == <<raw_text, cleaned_text>>

callVars == <<chunker, header_docs, chunk_call, first_result, textVars>>

chunkerVars ==
  <<preliminary_chunks, chunks_to_process, iteration, any_merges,
    final_chunks, chunk_pc, callVars>>

\* What a call of run leaves alone: the state of the components that are
\* exercised on their own below.
dbVars ==
  <<leases_table, rent_schedule, sqlite_sequence, connections, calls_made>>

indexVars == <<namespace, runs, last_upsert, deletes>>

enricherVars ==
  <<enricher, enriched, enrich_i, tasks, enrich_pc, returned_order>>

watcherVars ==
  <<pending_files, startup_files, ingestion_logs, input_folder,
    processed_folder, process_count, last_call, queued_count, last_queued,
    succeeded>>

componentVars ==
  <<chunkerVars, dbVars, indexVars, enricherVars, watcherVars>>

vars == <<pipelineVars, componentVars>>

\* What the steps of one component leave alone.
besidesChunker ==
  <<pipelineVars, dbVars, indexVars, enricherVars, watcherVars>>
besidesDatabase ==
  <<pipelineVars, chunkerVars, indexVars, enricherVars, watcherVars>>
besidesIndex ==
  <<pipelineVars, chunkerVars, dbVars, enricherVars, watcherVars>>
besidesEnricher == <<chunkerVars, dbVars, indexVars, watcherVars>>
besidesWatcher ==
  <<pipelineVars, chunkerVars, dbVars, indexVars, enricherVars>>

(***************************************************************************)
(* Helpers.                                                                *)
(***************************************************************************)
Min(a, b) == IF a < b THEN a ELSE b

\* Python's seq[lo:hi] on a 0-based sequence, as a 1-based TLA+ sequence.
Slice(s, lo, hi) == SubSeq(s, lo + 1, Min(hi, Len(s)))

\* list(range(lo, hi))
Range(lo, hi) == [k \in 1..(IF hi > lo THEN hi - lo ELSE 0) |-> lo + k - 1]

(***************************************************************************)
(* Contents.  A content is a sequence of pieces of text: the text of a     *)
(* segment of the document, or the blank line a merge puts between two     *)
(* contents.                                                               *)
(***************************************************************************)
\* The len characters of segment seg that start at offset from.
Span(seg, from, len) == [seg |-> seg, from |-> from, len |-> len]

\* The text of segment seg, len characters long.
Text(seg, len) == Span(seg, 0, len)

\* "\n\n"
BlankLine == Span(0, 0, 2)

\* Header metadata the header splitter attaches (HEADERS_TO_SPLIT_ON).
HeaderMetadata ==
  {"article" :> "ARTICLE 7",
   ("article" :> "ARTICLE 7") @@ ("section" :> "7.02"),
   ("article" :> "ARTICLE 8") @@ ("section" :> "8.01")}

\* len(content)
RECURSIVE ContentLen(_)
ContentLen(content) ==
  IF content = <<>> THEN 0
  ELSE Head(content).len + ContentLen(Tail(content))

\* _count_tokens: len(text) // 4
count_tokens(content) == ContentLen(content) \div 4

\* str.strip(): whitespace at both ends goes.
RECURSIVE strip(_)
strip(content) ==
  IF content = <<>> THEN <<>>
  ELSE IF Head(content) = BlankLine THEN strip(Tail(content))
  ELSE IF content[Len(content)] = BlankLine
       THEN strip(SubSeq(content, 1, Len(content) - 1))
       ELSE content

\* The Chunk the else branch of the header loop appends for segment k.
HeaderChunk(k, len, metadata) ==
  [content |-> strip(<<Text(k, len)>>), metadata |-> metadata,
   token_count |-> count_tokens(<<Text(k, len)>>)]

\* Python's content[:n]
RECURSIVE Prefix(_, _)
Prefix(content, n) ==
  IF content = <<>> \/ n = 0 THEN <<>>
  ELSE IF Head(content).len <= n
       THEN <<Head(content)>> \o Prefix(Tail(content), n - Head(content).len)
       ELSE <<[Head(content) EXCEPT !.len = n]>>

\* dict.get(key, "")
Get(metadata, key) == IF key \in DOMAIN metadata THEN metadata[key] ELSE ""

NoText == [summary |-> "", content |-> <<>>]

\* EnrichedChunk.enriched_content: the summary, a blank line and the content
\* when there is a summary, else the content alone.
enriched_content(c) ==
  IF c.contextual_summary # ""
  THEN [summary |-> c.contextual_summary, content |-> c.content]
  ELSE [summary |-> "", content |-> c.content]

\* The vector the embedding provider returns for a text.
Embed(text) == [kind |-> "real", of |-> text]

\* [0.0] * 768
placeholder == [kind |-> "zero", of |-> NoText]

\* f"{Path(file_path).stem}_chunk_{i}"
vector_id(k) == <<DocStem, k>>

\* _prepare_vector_metadata: the fields taken from the chunk.  text is
\* chunk.content[:1000]; the summaries of the model are shorter than the 500
\* characters that contextual_summary[:500] keeps.
prepare_vector_metadata(c) ==
  [chunk_index |-> c.chunk_index, source_section |-> c.source_section,
   clause_type |-> c.clause_type, semantic_tags |-> c.semantic_tags,
   contextual_summary |-> c.contextual_summary,
   text |-> Prefix(c.content, 1000)]

\* The loop at "Step 6" that zips chunks with embeddings.
BuildVectors(ecs, vecs) ==
  [k \in 1..Min(Len(ecs), Len(vecs)) |->
     [id |-> vector_id(k - 1), values |-> vecs[k],
      metadata |-> prepare_vector_metadata(ecs[k])]]

\* DocumentChunker.chunk, abstracted: one chunk per segment, in order, every
\* other one longer than the 1000 characters the vector metadata keeps; the
\* first one lies in a section outside any article.
ChunkLength(k) == IF k % 2 = 1 THEN 1200 ELSE 60

ChunkMetadata(k) ==
  IF k = 1 THEN "section" :> "1.01"
  ELSE ("article" :> "ARTICLE 7") @@ ("section" :> "7.02")

Chunker(n) ==
  [k \in 1..n |-> HeaderChunk(k, ChunkLength(k), ChunkMetadata(k))]

\* EnrichedChunk(): the defaults of the dataclass.
EnrichedChunk ==
  [content |-> <<>>, original_metadata |-> <<>>, token_count |-> 0,
   chunk_index |-> 0, source_document |-> "", source_section |-> "",
   char_start |-> 0, char_end |-> 0, page_numbers |-> <<>>,
   contextual_summary |-> "", semantic_tags |-> <<>>, key_entities |-> <<>>,
   clause_type |-> ""]

\* metadata.get("article", "") or metadata.get("section", "")
source_section(metadata) ==
  IF Get(metadata, "article") # "" THEN Get(metadata, "article")
  ELSE Get(metadata, "section")

\* The EnrichedChunk with the enrichment fields left at their defaults: the
\* except branch of enrich_chunk and run with enrichment disabled.
Unenriched(content, metadata, token_count, chunk_index, source_document) ==
  [EnrichedChunk EXCEPT
     !.content = content, !.original_metadata = metadata,
     !.token_count = token_count, !.chunk_index = chunk_index,
     !.source_document = source_document,
     !.source_section = source_section(metadata)]

\* What a call of client.models.generate_content does: it returns a response
\* whose text has the labelled lines, a response whose text has none of them,
\* a response without text (response.text is None), or it raises.
Responses == {"labelled lines", "no labelled line", "no text", "raises"}

\* _parse_response: the fields of the labelled lines, else the defaults.
parse_response(response) ==
  IF response = "labelled lines"
  THEN [contextual_summary |-> "llm summary", semantic_tags |-> <<"rent">>,
        key_entities |-> <<"Tenant">>, clause_type |-> "rent_payment"]
  ELSE [contextual_summary |-> "", semantic_tags |-> <<>>,
        key_entities |-> <<>>, clause_type |-> "other"]

\* The try block raises: generate_content does, or _parse_response does on
\* None.strip().
TryRaises(response) == response \in {"no text", "raises"}

\* ChunkEnricher.enrich_chunk
enrich_chunk(content, metadata, token_count, chunk_index, source_document, response) ==
  IF TryRaises(response)
  THEN Unenriched(content, metadata, token_count, chunk_index,
                  source_document)
  ELSE LET parsed == parse_response(response)
       IN  [Unenriched(content, metadata, token_count, chunk_index,
                       source_document) EXCEPT
              !.contextual_summary = parsed.contextual_summary,
              !.semantic_tags = parsed.semantic_tags,
              !.key_entities = parsed.key_entities,
              !.clause_type = parsed.clause_type]

\* RuleBasedEnricher.enrich_chunk: no external call; the summary is never
\* empty, the tags begin with the clause type, "other" when no keyword is
\* found.
rule_based_enrich_chunk(content, metadata, token_count, chunk_index, source_document) ==
  [Unenriched(content, metadata, token_count, chunk_index,
              source_document) EXCEPT
     !.contextual_summary = "rule summary",
     !.semantic_tags = <<"other">>,
     !.clause_type = "other"]

SuccessResult_uploaded ==
  [success |-> TRUE, chunks_processed |-> Len(chunks),
   vectors_uploaded |-> Len(vectors_to_upsert) - Len(failed_vectors),
   lease_data |-> lease, error_message |-> None]

\* return PipelineResult(success=True, ...)
SuccessResult ==
  [success |-> TRUE, chunks_processed |-> Len(chunks),
   vectors_uploaded |-> Len(vectors_to_upsert), lease_data |-> lease,
   error_message |-> None]

FailureResult_counts(e) ==
  [success |-> FALSE, chunks_processed |-> Len(chunks),
   vectors_uploaded |-> Len(vectors_to_upsert), lease_data |-> None,
   error_message |-> e]

FailureResult(e) ==
  [success |-> FALSE, chunks_processed |-> 0, vectors_uploaded |-> 0,
   lease_data |-> None, error_message |-> e]

(***************************************************************************)
(* The top-level handler of run: `except Exception as e` builds a failure  *)
(* PipelineResult and returns it.                                          *)
(***************************************************************************)
TopLevelHandler_reraise(e) ==
  /\ raised' = TRUE
  /\ pc' = "done"
  /\ UNCHANGED <<result, returned>>

TopLevelHandler(e) ==
  /\ result' = FailureResult(e)
  /\ returned' = returned + 1
  /\ pc' = "done"
  /\ UNCHANGED raised

resultVars == <<result, returned, raised>>
embedVars ==
  <<all_embeddings, failed_embedding_indices, emb_outcome, embed_sent>>
upsertVars == <<vectors_to_upsert, failed_vectors, ups_outcome, upsert_sent>>
loopVars == <<i, attempt, tries, backoff_secs>>
storeVars == <<index, leases, clause_rows>>
earlyVars == <<full_text, chunks, lease, enriched_chunks>>

(***************************************************************************)
(* Step 1: parse.  parse_file returns the documents or raises.             *)
(***************************************************************************)
ParseOk ==
  /\ pc = "parse"
  /\ \E n \in 0..MaxChunks : full_text' = n
  /\ parse_calls' = parse_calls + 1
  /\ called' = called \cup {"parser"}
  /\ stages' = Append(stages, "parse")
  /\ pc' = "chunk"
  /\ UNCHANGED <<componentVars, config, chunks, lease, enriched_chunks, embedVars, upsertVars, loopVars,
                 storeVars, extract_calls, resultVars>>

ParseRaise_retry ==
  /\ pc = "parse"
  /\ parse_calls' = parse_calls + 1
  /\ called' = called \cup {"parser"}
  /\ IF parse_calls < 1
     THEN /\ pc' = "parse"
          /\ UNCHANGED <<stages, resultVars>>
     ELSE /\ stages' = Append(stages, "parse")
          /\ TopLevelHandler(ParseError)
  /\ UNCHANGED <<componentVars, config, earlyVars, embedVars, upsertVars, loopVars,
                 storeVars, extract_calls>>

ParseRaise ==
  /\ pc = "parse"
  /\ parse_calls' = parse_calls + 1
  /\ called' = called \cup {"parser"}
  /\ stages' = Append(stages, "parse")
  /\ TopLevelHandler(ParseError)
  /\ UNCHANGED <<componentVars, config, earlyVars, embedVars, upsertVars, loopVars, storeVars, extract_calls>>

(***************************************************************************)
(* Step 2: chunk (pure).                                                   *)
(***************************************************************************)
Chunk ==
  /\ pc = "chunk"
  /\ chunks' = Chunker(full_text)
  /\ stages' = Append(stages, "chunk")
  /\ pc' = "extract"
  /\ UNCHANGED <<componentVars, config, full_text, lease, enriched_chunks, embedVars, upsertVars, loopVars,
                 storeVars, called, parse_calls, extract_calls, resultVars>>

(***************************************************************************)
(* Step 3: structured extraction.  extract returns a Lease or raises.      *)
(***************************************************************************)
ExtractOk ==
  /\ pc = "extract"
  /\ \E l \in LeaseRecords : lease' = l
  /\ extract_calls' = extract_calls + 1
  /\ called' = called \cup {"extractor"}
  /\ stages' = Append(stages, "extract")
  /\ pc' = "enrich"
  /\ UNCHANGED <<componentVars, config, full_text, chunks, enriched_chunks, embedVars, upsertVars, loopVars,
                 storeVars, parse_calls, resultVars>>

ExtractRaise ==
  /\ pc = "extract"
  /\ extract_calls' = extract_calls + 1
  /\ called' = called \cup {"extractor"}
  /\ stages' = Append(stages, "extract")
  /\ TopLevelHandler(ExtractError)
  /\ UNCHANGED <<componentVars, config, earlyVars, embedVars, upsertVars, loopVars, storeVars, parse_calls>>

(***************************************************************************)
(* Step 4: enrichment.                                                     *)
(***************************************************************************)
EnrichDone(ecs) ==
  /\ enriched_chunks' = ecs
  /\ stages' = Append(stages, "enrich")
  /\ pc' = "embed_start"
  /\ UNCHANGED <<componentVars, config, full_text, chunks, lease, embedVars, upsertVars, loopVars, storeVars,
                 parse_calls, extract_calls, resultVars>>

\* ChunkEnricher.enrich_chunks as one step (SpecEnrichment takes it apart):
\* every chunk comes back, in order, with chunk_index i + j; a chunk whose
\* model call failed has no summary.
EnrichLLM ==
  /\ pc = "enrich"
  /\ config.enable_enrichment
  /\ config.enricher = "llm"
  /\ called' = called \cup {"llm"}
  /\ \E failed \in SUBSET (1..Len(chunks)) :
       EnrichDone([k \in 1..Len(chunks) |->
         enrich_chunk(chunks[k].content, chunks[k].metadata,
                      chunks[k].token_count, k - 1, document_name,
                      IF k \in failed THEN "raises" ELSE "labelled lines")])

\* RuleBasedEnricher.enrich_chunks: the summary is never empty.
EnrichRuleBased ==
  /\ pc = "enrich"
  /\ config.enable_enrichment
  /\ config.enricher = "rule-based"
  /\ called' = called
  /\ EnrichDone([k \in 1..Len(chunks) |->
       rule_based_enrich_chunk(chunks[k].content, chunks[k].metadata,
                               chunks[k].token_count, k - 1, document_name)])

\* get_enricher returned None: self.enricher.enrich_chunks raises
\* AttributeError.
EnrichNone ==
  /\ pc = "enrich"
  /\ config.enable_enrichment
  /\ config.enricher = "none"
  /\ stages' = Append(stages, "enrich")
  /\ TopLevelHandler(EnrichError)
  /\ UNCHANGED <<componentVars, config, earlyVars, embedVars, upsertVars, loopVars, storeVars, called, parse_calls,
                 extract_calls>>

\* enable_enrichment is False: basic EnrichedChunk objects.
EnrichSkipped ==
  /\ pc = "enrich"
  /\ ~config.enable_enrichment
  /\ called' = called
  /\ EnrichDone([k \in 1..Len(chunks) |->
       Unenriched(chunks[k].content, chunks[k].metadata,
                  chunks[k].token_count, k - 1, document_name)])

(***************************************************************************)
(* Step 5: embeddings, in batches of config.embedding_batch_size, each     *)
(* batch with its retry loop.                                              *)
(***************************************************************************)
texts_to_embed == [k \in 1..Len(enriched_chunks) |->
                     enriched_content(enriched_chunks[k])]

\* time.sleep(2 ** attempt)
Backoff_linear(a) == 2 * a
Backoff(a) == 2 ^ a

EmbedStart ==
  /\ pc = "embed_start"
  /\ all_embeddings' = <<>>
  /\ failed_embedding_indices' = <<>>
  /\ emb_outcome' = <<>>
  /\ embed_sent' = {}
  /\ i' = 0
  /\ stages' = Append(stages, "embed")
  /\ pc' = "embed_loop"
  /\ UNCHANGED <<componentVars, config, earlyVars, upsertVars, attempt, tries, backoff_secs,
                 storeVars, called, parse_calls, extract_calls, resultVars>>

EmbedLoop_drop_last ==
  /\ pc = "embed_loop"
  /\ IF i + config.embedding_batch_size < Len(texts_to_embed)
     THEN /\ pc' = "embed_call"
          /\ attempt' = 0
          /\ tries' = 0
     ELSE /\ pc' = "build"
          /\ UNCHANGED <<attempt, tries>>
  /\ UNCHANGED <<componentVars, config, earlyVars, embedVars, upsertVars, i, backoff_secs,
                 storeVars, stages, called, parse_calls, extract_calls,
                 resultVars>>

\* for i in range(0, len(texts_to_embed), embedding_batch_size)
EmbedLoop ==
  /\ pc = "embed_loop"
  /\ IF i < Len(texts_to_embed)
     THEN /\ pc' = "embed_call"
          /\ attempt' = 0
          /\ tries' = 0
     ELSE /\ pc' = "build"
          /\ UNCHANGED <<attempt, tries>>
  /\ UNCHANGED <<componentVars, config, earlyVars, embedVars, upsertVars, i, backoff_secs,
                 storeVars, stages, called, parse_calls, extract_calls,
                 resultVars>>

\* Leaving the retry loop of an embedding batch: the inter-batch delay when
\* another batch follows.
EmbedBatchEnd ==
  IF i + config.embedding_batch_size < Len(texts_to_embed)
  THEN /\ pc' = "embed_delay"
       /\ backoff_secs' = 0
       /\ i' = i
  ELSE /\ pc' = "embed_loop"
       /\ backoff_secs' = 0
       /\ i' = i + config.embedding_batch_size

embed_batch_one_more ==
  Slice(texts_to_embed, i, i + config.embedding_batch_size + 1)

\* batch = texts_to_embed[i:i + self.config.embedding_batch_size]
embed_batch == Slice(texts_to_embed, i, i + config.embedding_batch_size)

batch_indices_no_offset == Range(0, Len(embed_batch))

batch_indices ==
  Range(i, Min(i + config.embedding_batch_size, Len(texts_to_embed)))

\* embed_documents returned: extend all_embeddings, break.
EmbedOk ==
  /\ pc = "embed_call"
  /\ attempt < max_retries
  /\ tries' = tries + 1
  /\ called' = called \cup {"embeddings"}
  /\ embed_sent' = embed_sent \cup {[start |-> i, batch |-> embed_batch]}
  /\ all_embeddings' =
       all_embeddings \o [k \in 1..Len(embed_batch) |-> Embed(embed_batch[k])]
  /\ emb_outcome' = Append(emb_outcome, "ok")
  /\ EmbedBatchEnd
  /\ UNCHANGED <<componentVars, config, earlyVars, failed_embedding_indices, upsertVars,
                 attempt, storeVars, stages, parse_calls, extract_calls,
                 resultVars>>

\* embed_documents raised and attempts remain: back off.
EmbedRetry ==
  /\ pc = "embed_call"
  /\ attempt < max_retries - 1
  /\ tries' = tries + 1
  /\ called' = called \cup {"embeddings"}
  /\ embed_sent' = embed_sent \cup {[start |-> i, batch |-> embed_batch]}
  /\ backoff_secs' = Backoff(attempt)
  /\ pc' = "embed_backoff"
  /\ UNCHANGED <<componentVars, config, earlyVars, all_embeddings, failed_embedding_indices,
                 emb_outcome, upsertVars, i, attempt,
                 storeVars, stages, parse_calls, extract_calls, resultVars>>

\* The sleep is over: next iteration of the retry loop.
EmbedBackoff ==
  /\ pc = "embed_backoff"
  /\ attempt' = attempt + 1
  /\ backoff_secs' = 0
  /\ pc' = "embed_call"
  /\ UNCHANGED <<componentVars, config, earlyVars, embedVars, upsertVars, i, tries,
                 storeVars, stages, called, parse_calls, extract_calls,
                 resultVars>>

EmbedExhausted_raise ==
  /\ pc = "embed_call"
  /\ attempt = max_retries - 1
  /\ tries' = tries + 1
  /\ called' = called \cup {"embeddings"}
  /\ embed_sent' = embed_sent \cup {[start |-> i, batch |-> embed_batch]}
  /\ TopLevelHandler("embedding failed")
  /\ UNCHANGED <<componentVars, config, earlyVars, all_embeddings, failed_embedding_indices,
                 emb_outcome, upsertVars, i, attempt,
                 backoff_secs, storeVars, stages, parse_calls,
                 extract_calls>>

EmbedExhausted_one_placeholder ==
  /\ pc = "embed_call"
  /\ attempt = max_retries - 1
  /\ tries' = tries + 1
  /\ called' = called \cup {"embeddings"}
  /\ embed_sent' = embed_sent \cup {[start |-> i, batch |-> embed_batch]}
  /\ all_embeddings' = all_embeddings \o <<placeholder>>
  /\ failed_embedding_indices' = failed_embedding_indices \o batch_indices
  /\ emb_outcome' = Append(emb_outcome, "failed")
  /\ EmbedBatchEnd
  /\ UNCHANGED <<componentVars, config, earlyVars, upsertVars, attempt, storeVars, stages,
                 parse_calls, extract_calls, resultVars>>

EmbedExhausted ==
  /\ pc = "embed_call"
  /\ attempt = max_retries - 1
  /\ tries' = tries + 1
  /\ called' = called \cup {"embeddings"}
  /\ embed_sent' = embed_sent \cup {[start |-> i, batch |-> embed_batch]}
  /\ all_embeddings' =
       all_embeddings \o [k \in 1..Len(embed_batch) |-> placeholder]
  /\ failed_embedding_indices' = failed_embedding_indices \o batch_indices
  /\ emb_outcome' = Append(emb_outcome, "failed")
  /\ EmbedBatchEnd
  /\ UNCHANGED <<componentVars, config, earlyVars, upsertVars, attempt, storeVars, stages,
                 parse_calls, extract_calls, resultVars>>

\* time.sleep(embedding_delay_seconds) is over: next batch.
EmbedDelay ==
  /\ pc = "embed_delay"
  /\ i' = i + config.embedding_batch_size
  /\ backoff_secs' = 0
  /\ pc' = "embed_loop"
  /\ UNCHANGED <<componentVars, config, earlyVars, embedVars, upsertVars, attempt, tries,
                 storeVars, stages, called, parse_calls, extract_calls,
                 resultVars>>

(***************************************************************************)
(* Step 6: build the vectors and upsert them in batches of batch_size,     *)
(* each batch with its retry loop.                                         *)
(***************************************************************************)
Build ==
  /\ pc = "build"
  /\ vectors_to_upsert' = BuildVectors(enriched_chunks, all_embeddings)
  /\ failed_vectors' = <<>>
  /\ ups_outcome' = <<>>
  /\ upsert_sent' = {}
  /\ i' = 0
  /\ stages' = Append(stages, "upsert")
  /\ pc' = "upsert_loop"
  /\ UNCHANGED <<componentVars, config, earlyVars, embedVars, attempt, tries, backoff_secs,
                 storeVars, called, parse_calls, extract_calls, resultVars>>

\* for i in range(0, len(vectors_to_upsert), batch_size)
UpsertLoop ==
  /\ pc = "upsert_loop"
  /\ IF i < Len(vectors_to_upsert)
     THEN /\ pc' = "upsert_call"
          /\ attempt' = 0
          /\ tries' = 0
     ELSE /\ pc' = "persist"
          /\ UNCHANGED <<attempt, tries>>
  /\ UNCHANGED <<componentVars, config, earlyVars, embedVars, upsertVars, i, backoff_secs,
                 storeVars, stages, called, parse_calls, extract_calls,
                 resultVars>>

upsert_batch == Slice(vectors_to_upsert, i, i + batch_size)

batch_ids == [k \in 1..Len(upsert_batch) |-> upsert_batch[k].id]

\* The index after upsert(vectors=batch): insert or replace by id.
IndexUpsert(idx, batch) ==
  [id \in DOMAIN idx \cup {batch[k].id : k \in 1..Len(batch)} |->
     IF \E k \in 1..Len(batch) : batch[k].id = id
     THEN LET k == CHOOSE k \in 1..Len(batch) :
                     /\ batch[k].id = id
                     /\ \A m \in (k + 1)..Len(batch) : batch[m].id # id
          IN [values |-> batch[k].values, metadata |-> batch[k].metadata]
     ELSE idx[id]]

\* index.upsert returned: break.
UpsertOk ==
  /\ pc = "upsert_call"
  /\ attempt < max_retries
  /\ tries' = tries + 1
  /\ called' = called \cup {"index"}
  /\ upsert_sent' = upsert_sent \cup {[start |-> i, batch |-> upsert_batch]}
  /\ index' = IndexUpsert(index, upsert_batch)
  /\ ups_outcome' = Append(ups_outcome, "ok")
  /\ i' = i + batch_size
  /\ backoff_secs' = 0
  /\ pc' = "upsert_loop"
  /\ UNCHANGED <<componentVars, config, earlyVars, embedVars, vectors_to_upsert,
                 failed_vectors, attempt, leases,
                 clause_rows, stages, parse_calls, extract_calls, resultVars>>

\* index.upsert raised and attempts remain: back off.
UpsertRetry ==
  /\ pc = "upsert_call"
  /\ attempt < max_retries - 1
  /\ tries' = tries + 1
  /\ called' = called \cup {"index"}
  /\ upsert_sent' = upsert_sent \cup {[start |-> i, batch |-> upsert_batch]}
  /\ backoff_secs' = Backoff(attempt)
  /\ pc' = "upsert_backoff"
  /\ UNCHANGED <<componentVars, config, earlyVars, embedVars, vectors_to_upsert, failed_vectors,
                 ups_outcome, i, attempt,
                 storeVars, stages, parse_calls, extract_calls, resultVars>>

UpsertBackoff ==
  /\ pc = "upsert_backoff"
  /\ attempt' = attempt + 1
  /\ backoff_secs' = 0
  /\ pc' = "upsert_call"
  /\ UNCHANGED <<componentVars, config, earlyVars, embedVars, upsertVars, i, tries,
                 storeVars, stages, called, parse_calls, extract_calls,
                 resultVars>>

\* index.upsert raised on the last attempt: record the batch's ids, go on.
UpsertExhausted_abort ==
  /\ pc = "upsert_call"
  /\ attempt = max_retries - 1
  /\ tries' = tries + 1
  /\ called' = called \cup {"index"}
  /\ upsert_sent' = upsert_sent \cup {[start |-> i, batch |-> upsert_batch]}
  /\ failed_vectors' = failed_vectors \o batch_ids
  /\ ups_outcome' = Append(ups_outcome, "failed")
  /\ i' = Len(vectors_to_upsert)
  /\ backoff_secs' = 0
  /\ pc' = "upsert_loop"
  /\ UNCHANGED <<componentVars, config, earlyVars, embedVars, vectors_to_upsert, attempt,
                 storeVars, stages, parse_calls, extract_calls, resultVars>>

UpsertExhausted ==
  /\ pc = "upsert_call"
  /\ attempt = max_retries - 1
  /\ tries' = tries + 1
  /\ called' = called \cup {"index"}
  /\ upsert_sent' = upsert_sent \cup {[start |-> i, batch |-> upsert_batch]}
  /\ failed_vectors' = failed_vectors \o batch_ids
  /\ ups_outcome' = Append(ups_outcome, "failed")
  /\ i' = i + batch_size
  /\ backoff_secs' = 0
  /\ pc' = "upsert_loop"
  /\ UNCHANGED <<componentVars, config, earlyVars, embedVars, vectors_to_upsert, attempt,
                 storeVars, stages, parse_calls, extract_calls, resultVars>>

(***************************************************************************)
(* Persist the lease record: insert_lease, called outside any inner try.   *)
(***************************************************************************)

\* insert_lease: update the row of that document name, else insert one.
InsertLease(tbl, name, data) ==
  [n \in DOMAIN tbl \cup {name} |-> IF n = name THEN data ELSE tbl[n]]

InsertLeaseOk ==
  /\ pc = "persist"
  /\ called' = called \cup {"store"}
  /\ leases' = InsertLease(leases, document_name, lease)
  /\ stages' = Append(stages, "persist")
  /\ pc' = "clauses"
  /\ UNCHANGED <<componentVars, config, earlyVars, embedVars, upsertVars, loopVars, index,
                 clause_rows, parse_calls, extract_calls, resultVars>>

\* insert_lease raised: get_connection rolls back, the exception reaches
\* the top-level handler of run.
InsertLeaseRaise ==
  /\ pc = "persist"
  /\ called' = called \cup {"store"}
  /\ stages' = Append(stages, "persist")
  /\ TopLevelHandler(StoreError)
  /\ UNCHANGED <<componentVars, config, earlyVars, embedVars, upsertVars, loopVars,
                 storeVars, parse_calls, extract_calls>>

(***************************************************************************)
(* Step 7: clause summaries, inside their own try/except.                  *)
(***************************************************************************)
ClauseDone ==
  /\ stages' = Append(stages, "clauses")
  /\ pc' = "return"
  /\ UNCHANGED <<componentVars, config, earlyVars, embedVars, upsertVars, loopVars, index,
                 leases, parse_calls, extract_calls, resultVars>>

\* insert_clauses(lease_id, clauses): the clause rows of that lease.
InsertClauses(rows, name) == rows \cup {name}

\* Clauses extracted and insert_clauses stored them.
ClausesStored ==
  /\ pc = "clauses"
  /\ called' = called \cup {"clause_extractor", "insert_clauses"}
  /\ clause_rows' = InsertClauses(clause_rows, document_name)
  /\ ClauseDone

\* extract_clauses returned no clause (it returns [] on its own errors).
ClausesEmpty ==
  /\ pc = "clauses"
  /\ called' = called \cup {"clause_extractor"}
  /\ clause_rows' = clause_rows
  /\ ClauseDone

\* ClauseExtractor() raised (or a step of extract_clauses outside its own
\* try did): caught, logged.
ClauseExtractorRaise ==
  /\ pc = "clauses"
  /\ called' = called
  /\ clause_rows' = clause_rows
  /\ ClauseDone

InsertClausesRaise_fatal ==
  /\ pc = "clauses"
  /\ called' = called \cup {"clause_extractor", "insert_clauses"}
  /\ stages' = Append(stages, "clauses")
  /\ TopLevelHandler("clause extraction failed")
  /\ UNCHANGED <<componentVars, config, earlyVars, embedVars, upsertVars, loopVars,
                 storeVars, parse_calls, extract_calls>>

\* insert_clauses raised: caught, logged.
InsertClausesRaise ==
  /\ pc = "clauses"
  /\ called' = called \cup {"clause_extractor", "insert_clauses"}
  /\ clause_rows' = clause_rows
  /\ ClauseDone

\* return PipelineResult(success=True, ...)
Return ==
  /\ pc = "return"
  /\ result' = SuccessResult
  /\ returned' = returned + 1
  /\ pc' = "done"
  /\ UNCHANGED <<componentVars, config, earlyVars, embedVars, upsertVars, loopVars,
                 storeVars, stages, called, parse_calls, extract_calls,
                 raised>>

RunLocalsInit ==
  /\ full_text = 0
  /\ chunks = <<>>
  /\ lease = None
  /\ enriched_chunks = <<>>
  /\ all_embeddings = <<>>
  /\ failed_embedding_indices = <<>>
  /\ vectors_to_upsert = <<>>
  /\ failed_vectors = <<>>
  /\ i = 0
  /\ attempt = 0
  /\ tries = 0
  /\ emb_outcome = <<>>
  /\ ups_outcome = <<>>
  /\ backoff_secs = 0
  /\ embed_sent = {}
  /\ upsert_sent = {}
  /\ index = <<>>
  /\ leases = <<>>
  /\ clause_rows = {}
  /\ stages = <<>>
  /\ called = {}
  /\ parse_calls = 0
  /\ extract_calls = 0
  /\ result = None
  /\ returned = 0
  /\ raised = FALSE

\* DocumentChunker(): the parameters __init__ stores.
DocumentChunker ==
  [max_tokens |-> MAX_CHUNK_TOKENS,
   secondary_chunk_size |-> SECONDARY_CHUNK_SIZE,
   secondary_chunk_overlap |-> SECONDARY_CHUNK_OVERLAP]

\* The characters of the text are left out: the call is followed from the
\* segments the header splitter made of it.
TextElided == raw_text = <<"...">> /\ cleaned_text = <<"...">>

\* No chunker call of its own is under way.
ChunkerOff ==
  /\ preliminary_chunks = <<>>
  /\ chunks_to_process = <<>>
  /\ iteration = 0
  /\ any_merges = FALSE
  /\ final_chunks = <<>>
  /\ chunk_pc = "off"
  /\ chunker = DocumentChunker
  /\ header_docs = <<>>
  /\ chunk_call = 0
  /\ first_result = <<>>
  /\ TextElided

\* get_enricher(), with the batch_size the ChunkEnricher is built with.
get_enricher(mode, size) ==
  IF mode = "llm" THEN [class |-> "ChunkEnricher", batch_size |-> size]
  ELSE IF mode = "rule-based"
       THEN [class |-> "RuleBasedEnricher", batch_size |-> 0]
       ELSE [class |-> "NoneType", batch_size |-> 0]

\* No enrich_chunks call taken apart into its steps is under way.
EnrichLocalsOff ==
  /\ enriched = <<>>
  /\ enrich_i = 0
  /\ tasks = <<>>
  /\ enrich_pc = "off"
  /\ returned_order = <<>>

EnricherOff ==
  /\ enricher = get_enricher("none", 0)
  /\ EnrichLocalsOff

\* The callers that may be inside insert_lease at the same time.
Callers == {"run_1", "run_2"}

\* The database after init_db, no call under way.
DatabaseInit ==
  /\ leases_table = {}
  /\ rent_schedule = {}
  /\ sqlite_sequence = [leases |-> 0, rent_schedule |-> 0]
  /\ connections =
       [c \in Callers |->
          [pc |-> "idle", document_name |-> "", basic_rent_schedule |-> <<>>,
           existing |-> 0, row_at_call |-> 0, lease_id |-> 0,
           error |-> None]]
  /\ calls_made = 0

\* The pipeline runs that may be in their upsert stage at the same time.
Runs == {"run_1", "run_2"}

\* An empty namespace, no run in its upsert stage.
NamespaceInit ==
  /\ namespace = {}
  /\ runs = [r \in Runs |->
              [pc |-> "idle", file_path |-> <<>>, text |-> <<>>, i |-> 0,
               failed_vectors |-> {}, earlier |-> {}]]
  /\ last_upsert = <<>>
  /\ deletes = <<>>

\* process_file has not been called.
NoCall ==
  [file_name |-> <<>>, mode |-> "", outcome |-> "", ended |-> "",
   success |-> FALSE, error |-> None]

\* No file watcher runs.
WatcherOff ==
  /\ pending_files = {}
  /\ startup_files = {}
  /\ ingestion_logs = <<>>
  /\ input_folder = {}
  /\ processed_folder = {}
  /\ process_count = 0
  /\ last_call = NoCall
  /\ queued_count = 0
  /\ last_queued = <<>>
  /\ succeeded = {}

Init ==
  /\ config \in Configs
  /\ pc = "parse"
  /\ RunLocalsInit
  /\ enricher = get_enricher(config.enricher, MaxEnrichmentBatch)
  /\ EnrichLocalsOff
  /\ ChunkerOff
  /\ DatabaseInit
  /\ NamespaceInit
  /\ WatcherOff

Next ==
  \/ ParseOk \/ ParseRaise
  \/ Chunk
  \/ ExtractOk \/ ExtractRaise
  \/ EnrichLLM \/ EnrichRuleBased \/ EnrichNone \/ EnrichSkipped
  \/ EmbedStart \/ EmbedLoop \/ EmbedOk \/ EmbedRetry \/ EmbedBackoff
  \/ EmbedExhausted \/ EmbedDelay
  \/ Build \/ UpsertLoop \/ UpsertOk \/ UpsertRetry \/ UpsertBackoff
  \/ UpsertExhausted
  \/ InsertLeaseOk \/ InsertLeaseRaise
  \/ ClausesStored \/ ClausesEmpty \/ ClauseExtractorRaise
  \/ InsertClausesRaise
  \/ Return

Spec == Init /\ [][Next]_vars

(***************************************************************************)
(* Step 4 taken apart (enricher.py 267-322): the LLM enricher dispatches   *)
(* the chunks in batches of batch_size, the calls of a batch run           *)
(* concurrently in threads and return in any order, asyncio.gather hands   *)
(* their results back in the order of the tasks, and the loop sleeps       *)
(* rate_limit_delay before the next batch.  The run goes on from there to  *)
(* the embedding stage and builds the vectors.                             *)
(***************************************************************************)
\* chunks[i:i + self.batch_size]
enrich_batch == Slice(chunks, enrich_i, enrich_i + enricher.batch_size)

\* tasks = [self._enrich_chunk_async(..., chunk_index=i + j, ...)
\*          for j, c in enumerate(batch)]
EnrichTasks ==
  [j \in 1..Len(enrich_batch) |->
     [chunk |-> enrich_batch[j], chunk_index |-> enrich_i + j - 1,
      state |-> "running", response |-> "", result |-> EnrichedChunk]]

\* run calls self.enricher.enrich_chunks: asyncio.run(enrich_chunks_async).
EnrichChunksBegin ==
  /\ pc = "enrich"
  /\ config.enable_enrichment
  /\ config.enricher = "llm"
  /\ enrich_pc = "off"
  /\ enriched' = <<>>
  /\ enrich_i' = 0
  /\ tasks' = <<>>
  /\ enrich_pc' = "loop"
  /\ UNCHANGED <<pipelineVars, enricher, returned_order, besidesEnricher>>

\* for i in range(0, total, self.batch_size): the tasks of the batch start.
EnrichLoop ==
  /\ enrich_pc = "loop"
  /\ IF enrich_i < Len(chunks)
     THEN /\ tasks' = EnrichTasks
          /\ enrich_pc' = "gather"
     ELSE /\ tasks' = <<>>
          /\ enrich_pc' = "done"
  /\ UNCHANGED <<pipelineVars, enricher, enriched, enrich_i, returned_order,
                 besidesEnricher>>

\* A model call of the batch propagates its exception out of enrich_chunk:
\* gather raises, and run's handler returns a failure.
EnrichChunkReturns_raise ==
  /\ enrich_pc = "gather"
  /\ \E j \in 1..Len(tasks), response \in Responses :
       /\ tasks[j].state = "running"
       /\ IF TryRaises(response)
          THEN /\ tasks' = <<>>
               /\ enrich_pc' = "done"
               /\ returned_order' = returned_order
               /\ called' = called \cup {"llm"}
               /\ stages' = Append(stages, "enrich")
               /\ TopLevelHandler("enrichment failed")
               /\ UNCHANGED <<config, earlyVars, embedVars, upsertVars,
                              loopVars, storeVars, parse_calls,
                              extract_calls>>
          ELSE /\ returned_order' =
                    Append(returned_order, tasks[j].chunk_index)
               /\ tasks' =
                    [tasks EXCEPT
                       ![j].state = "returned",
                       ![j].response = response,
                       ![j].result =
                         enrich_chunk(tasks[j].chunk.content,
                                      tasks[j].chunk.metadata,
                                      tasks[j].chunk.token_count,
                                      tasks[j].chunk_index, document_name,
                                      response)]
               /\ called' = called \cup {"llm"}
               /\ UNCHANGED <<enrich_pc, config, pc, earlyVars, embedVars,
                              upsertVars, loopVars, storeVars, stages,
                              parse_calls, extract_calls, resultVars>>
  /\ UNCHANGED <<enricher, enriched, enrich_i, besidesEnricher>>

\* One of the calls in flight returns from enrich_chunk, whatever the model
\* call did.
EnrichChunkReturns ==
  /\ enrich_pc = "gather"
  /\ \E j \in 1..Len(tasks), response \in Responses :
       /\ tasks[j].state = "running"
       /\ returned_order' = Append(returned_order, tasks[j].chunk_index)
       /\ tasks' =
            [tasks EXCEPT
               ![j].state = "returned",
               ![j].response = response,
               ![j].result =
                 enrich_chunk(tasks[j].chunk.content, tasks[j].chunk.metadata,
                              tasks[j].chunk.token_count,
                              tasks[j].chunk_index, document_name, response)]
  /\ called' = called \cup {"llm"}
  /\ UNCHANGED <<config, pc, earlyVars, embedVars, upsertVars, loopVars,
                 storeVars, stages, parse_calls, extract_calls, resultVars>>
  /\ UNCHANGED <<enricher, enriched, enrich_i, enrich_pc, besidesEnricher>>

EnrichBatchEnd_always_sleep ==
  /\ enrich_pc' = "sleep"
  /\ enrich_i' = enrich_i

\* if i + self.batch_size < total: await asyncio.sleep(rate_limit_delay)
EnrichBatchEnd ==
  IF enrich_i + enricher.batch_size < Len(chunks)
  THEN /\ enrich_pc' = "sleep"
       /\ enrich_i' = enrich_i
  ELSE /\ enrich_pc' = "loop"
       /\ enrich_i' = enrich_i + enricher.batch_size

EnrichGather_completion_order ==
  /\ enrich_pc = "gather"
  /\ \A j \in 1..Len(tasks) : tasks[j].state = "returned"
  /\ enriched' =
       enriched \o
         [m \in 1..Len(tasks) |->
            LET ci == returned_order[Len(returned_order) - Len(tasks) + m]
            IN  tasks[ci - enrich_i + 1].result]
  /\ tasks' = <<>>
  /\ EnrichBatchEnd
  /\ UNCHANGED <<pipelineVars, enricher, returned_order, besidesEnricher>>

\* batch_results = await asyncio.gather(*tasks): the results in the order of
\* the tasks; enriched.extend(batch_results)
EnrichGather ==
  /\ enrich_pc = "gather"
  /\ \A j \in 1..Len(tasks) : tasks[j].state = "returned"
  /\ enriched' = enriched \o [j \in 1..Len(tasks) |-> tasks[j].result]
  /\ tasks' = <<>>
  /\ EnrichBatchEnd
  /\ UNCHANGED <<pipelineVars, enricher, returned_order, besidesEnricher>>

\* The sleep between two batches is over: next batch.
EnrichSleep ==
  /\ enrich_pc = "sleep"
  /\ enrich_i' = enrich_i + enricher.batch_size
  /\ enrich_pc' = "loop"
  /\ UNCHANGED <<pipelineVars, enricher, enriched, tasks, returned_order,
                 besidesEnricher>>

\* return enriched: run has its enriched_chunks.
EnrichChunksReturn ==
  /\ pc = "enrich"
  /\ enrich_pc = "done"
  /\ called' = called
  /\ EnrichDone(enriched)

\* run after the extraction step, the enricher built by __init__.
InitEnrichment ==
  /\ config \in Configs
  /\ pc = "enrich"
  /\ \E n \in 0..MaxChunks : full_text = n /\ chunks = Chunker(n)
  /\ lease \in LeaseRecords
  /\ enriched_chunks = <<>>
  /\ all_embeddings = <<>>
  /\ failed_embedding_indices = <<>>
  /\ vectors_to_upsert = <<>>
  /\ failed_vectors = <<>>
  /\ i = 0
  /\ attempt = 0
  /\ tries = 0
  /\ emb_outcome = <<>>
  /\ ups_outcome = <<>>
  /\ backoff_secs = 0
  /\ embed_sent = {}
  /\ upsert_sent = {}
  /\ index = <<>>
  /\ leases = <<>>
  /\ clause_rows = {}
  /\ stages = <<"parse", "chunk", "extract">>
  /\ called = {"parser", "extractor"}
  /\ parse_calls = 1
  /\ extract_calls = 1
  /\ result = None
  /\ returned = 0
  /\ raised = FALSE
  /\ \E size \in 1..MaxEnrichmentBatch :
       enricher = get_enricher(config.enricher, size)
  /\ EnrichLocalsOff
  /\ ChunkerOff
  /\ DatabaseInit
  /\ NamespaceInit
  /\ WatcherOff

NextEnrichment ==
  \/ EnrichChunksBegin \/ EnrichLoop \/ EnrichChunkReturns \/ EnrichGather
  \/ EnrichSleep \/ EnrichChunksReturn
  \/ EnrichRuleBased \/ EnrichNone \/ EnrichSkipped
  \/ EmbedStart \/ EmbedLoop \/ EmbedOk \/ EmbedRetry \/ EmbedBackoff
  \/ EmbedExhausted \/ EmbedDelay
  \/ Build

SpecEnrichment == InitEnrichment /\ [][NextEnrichment]_vars

(***************************************************************************)
(* DocumentChunker.chunk, the orphan merging at the end (chunker.py        *)
(* 213-255).                                                               *)
(***************************************************************************)
\* Lengths of the stripped contents that enter merging: 0, 15 and 25 tokens.
SegmentLengths == {3, 60, 100}

\* The lists of preliminary chunks of documents of up to MaxSegments segments.
PreliminaryLists ==
  UNION {[1..n -> SegmentLengths \X HeaderMetadata] : n \in 0..MaxSegments}

merged_content_next_first(current_chunk, next_chunk) ==
  next_chunk.content \o <<BlankLine>> \o current_chunk.content

\* f"{current_chunk.content}\n\n{next_chunk.content}"
merged_content(current_chunk, next_chunk) ==
  current_chunk.content \o <<BlankLine>> \o next_chunk.content

merged_metadata_current_wins(current_chunk, next_chunk) ==
  [key \in DOMAIN current_chunk.metadata \cup DOMAIN next_chunk.metadata |->
     IF key \in DOMAIN current_chunk.metadata
     THEN current_chunk.metadata[key] ELSE next_chunk.metadata[key]]

\* {**current_chunk.metadata, **next_chunk.metadata}
merged_metadata(current_chunk, next_chunk) ==
  [key \in DOMAIN current_chunk.metadata \cup DOMAIN next_chunk.metadata |->
     IF key \in DOMAIN next_chunk.metadata
     THEN next_chunk.metadata[key] ELSE current_chunk.metadata[key]]

MergedChunk_sum_of_counts(current_chunk, next_chunk) ==
  [content |-> strip(merged_content(current_chunk, next_chunk)),
   metadata |-> merged_metadata(current_chunk, next_chunk),
   token_count |-> current_chunk.token_count + next_chunk.token_count]

\* The Chunk a merge appends.
MergedChunk(current_chunk, next_chunk) ==
  [content |-> strip(merged_content(current_chunk, next_chunk)),
   metadata |-> merged_metadata(current_chunk, next_chunk),
   token_count |-> count_tokens(merged_content(current_chunk, next_chunk))]

\* current_chunk.token_count < ORPHAN_CHUNK_MIN_TOKENS
BelowThreshold(c) == c.token_count < ORPHAN_CHUNK_MIN_TOKENS

RECURSIVE MergePass_drop_last(_, _)
MergePass_drop_last(cs, k) ==
  IF k > Len(cs) THEN <<>>
  ELSE IF BelowThreshold(cs[k]) /\ k + 1 <= Len(cs)
       THEN <<MergedChunk(cs[k], cs[k + 1])>> \o MergePass_drop_last(cs, k + 2)
       ELSE IF BelowThreshold(cs[k]) THEN <<>>
       ELSE <<cs[k]>> \o MergePass_drop_last(cs, k + 1)

\* The while loop of one pass, from position k (1-based) on: merged_chunks.
RECURSIVE MergePass(_, _)
MergePass(cs, k) ==
  IF k > Len(cs) THEN <<>>
  ELSE IF BelowThreshold(cs[k]) /\ k + 1 <= Len(cs)
       THEN <<MergedChunk(cs[k], cs[k + 1])>> \o MergePass(cs, k + 2)
       ELSE <<cs[k]>> \o MergePass(cs, k + 1)

\* any_merges after the pass from position k on.
RECURSIVE AnyMerges(_, _)
AnyMerges(cs, k) ==
  IF k > Len(cs) THEN FALSE
  ELSE IF BelowThreshold(cs[k]) /\ k + 1 <= Len(cs) THEN TRUE
       ELSE AnyMerges(cs, k + 1)

LoopEnds_after_first_pass(n, merges) == n >= 1

\* The for loop ends after pass n: break, or range(max_iterations) is used up.
LoopEnds(n, merges) == ~merges \/ n >= max_iterations

\* One pass of the for loop.
MergeIteration ==
  /\ chunk_pc = "merge"
  /\ chunks_to_process' = MergePass(chunks_to_process, 1)
  /\ any_merges' = AnyMerges(chunks_to_process, 1)
  /\ iteration' = iteration + 1
  /\ chunk_pc' = IF LoopEnds(iteration', any_merges') THEN "final" ELSE "merge"
  /\ UNCHANGED <<besidesChunker, callVars, preliminary_chunks, final_chunks>>

ChunkReturn_changes_chunker ==
  /\ chunk_pc = "final"
  /\ final_chunks' = chunks_to_process
  /\ chunk_pc' = "done"
  /\ chunker' = [chunker EXCEPT !.max_tokens = Len(final_chunks')]
  /\ UNCHANGED <<besidesChunker, header_docs, chunk_call, first_result,
                 textVars,
                 preliminary_chunks, chunks_to_process, iteration, any_merges>>

\* final_chunks = chunks_to_process; return.
ChunkReturn ==
  /\ chunk_pc = "final"
  /\ final_chunks' = chunks_to_process
  /\ chunk_pc' = "done"
  /\ UNCHANGED <<besidesChunker, callVars, preliminary_chunks, chunks_to_process,
                 iteration, any_merges>>

\* No run of the pipeline is under way.
PipelineOff ==
  /\ config = [enable_enrichment |-> FALSE, enricher |-> "none",
               embedding_batch_size |-> 1]
  /\ pc = "off"
  /\ RunLocalsInit
  /\ EnricherOff

InitChunker ==
  /\ PipelineOff
  /\ \E segs \in PreliminaryLists :
       /\ preliminary_chunks =
            [k \in DOMAIN segs |-> HeaderChunk(k, segs[k][1], segs[k][2])]
       /\ header_docs =
            [k \in DOMAIN segs |->
               [len |-> segs[k][1], metadata |-> segs[k][2],
                layout |-> "paragraphs"]]
  /\ chunker = DocumentChunker
  /\ TextElided
  /\ chunk_call = 1
  /\ first_result = <<>>
  /\ chunks_to_process = preliminary_chunks
  /\ iteration = 0
  /\ any_merges = FALSE
  /\ final_chunks = <<>>
  /\ chunk_pc = "merge"
  /\ DatabaseInit
  /\ NamespaceInit
  /\ WatcherOff

NextChunker == MergeIteration \/ ChunkReturn

SpecChunker == InitChunker /\ [][NextChunker]_vars

(***************************************************************************)
(* DocumentChunker.chunk from the header split on (chunker.py 179-260).    *)
(* header_docs is what header_splitter.split_text made of the cleaned      *)
(* text: per header segment its length, its header metadata and the layout *)
(* of its text, which decides where the recursive splitter cuts it.  Both  *)
(* splitters are library code: their pieces are taken to be non-empty and  *)
(* free of surrounding whitespace, in the order of the text.               *)
(***************************************************************************)
\* Lengths of header segments: the small ones, 1000 tokens exactly, the
\* shortest of 1001 tokens, and a section of 5,000 characters.
DocLengths == SegmentLengths \cup {4000, 4004, 5000}

\* An oversized segment is paragraphs of the piece size, a run of sentences
\* (the splitter then repeats the end of a piece at the start of the next),
\* or a heading line of 11 characters, a line break and long paragraphs (the
\* splitter then gives the heading as a piece of its own).
Layouts == {"paragraphs", "sentences", "heading"}

HeaderDocs ==
  {d \in [len : DocLengths, metadata : HeaderMetadata, layout : Layouts] :
     d.len <= 4000 => d.layout = "paragraphs"}

HeaderDocLists == UNION {[1..n -> HeaderDocs] : n \in 0..MaxHeaderDocs}

\* Pieces of at most secondary_chunk_size characters that start step apart.
RECURSIVE PiecesFrom(_, _, _)
PiecesFrom(from, total, step) ==
  IF from + chunker.secondary_chunk_size >= total
  THEN <<[from |-> from, len |-> total - from]>>
  ELSE <<[from |-> from, len |-> chunker.secondary_chunk_size]>>
         \o PiecesFrom(from + step, total, step)

\* self.recursive_splitter.split_text(content)
split_text(doc) ==
  CASE doc.layout = "paragraphs" ->
         PiecesFrom(0, doc.len, chunker.secondary_chunk_size)
    [] doc.layout = "sentences" ->
         PiecesFrom(0, doc.len,
                    chunker.secondary_chunk_size
                      - chunker.secondary_chunk_overlap)
    [] doc.layout = "heading" ->
         <<[from |-> 0, len |-> 11]>>
           \o PiecesFrom(14, doc.len, chunker.secondary_chunk_size)

\* len(words) in _is_orphan_chunk: about six characters a word.
WordCount(piece) == piece.len \div 6

is_orphan_chunk_never(piece) == FALSE

\* _is_orphan_chunk(sub_content)
is_orphan_chunk(piece) == WordCount(piece) < min_words

SubChunk_from_start(seg, piece, pos, metadata) ==
  [content |-> strip(<<Span(seg, 0, piece.len)>>),
   metadata |-> ("sub_chunk" :> pos + 1) @@ metadata,
   token_count |-> count_tokens(<<Span(seg, 0, piece.len)>>)]

\* The Chunk appended for piece pos (0-based) of segment seg.
SubChunk(seg, piece, pos, metadata) ==
  [content |-> strip(<<Span(seg, piece.from, piece.len)>>),
   metadata |-> ("sub_chunk" :> pos + 1) @@ metadata,
   token_count |-> count_tokens(<<Span(seg, piece.from, piece.len)>>)]

\* for i, sub_content in enumerate(sub_docs), from piece pos on.
RECURSIVE SubChunks(_, _, _, _)
SubChunks(seg, doc, pieces, pos) ==
  IF pos >= Len(pieces) THEN <<>>
  ELSE IF is_orphan_chunk(pieces[pos + 1])
       THEN SubChunks(seg, doc, pieces, pos + 1)
       ELSE <<SubChunk(seg, pieces[pos + 1], pos, doc.metadata)>>
              \o SubChunks(seg, doc, pieces, pos + 1)

NeedsSplit_or_equal(doc) ==
  count_tokens(<<Text(0, doc.len)>>) >= chunker.max_tokens

\* token_count > self.max_tokens
NeedsSplit(doc) == count_tokens(<<Text(0, doc.len)>>) > chunker.max_tokens

\* for doc in header_docs, from segment k on: preliminary_chunks.
RECURSIVE PreliminaryChunks(_, _)
PreliminaryChunks(docs, k) ==
  IF k > Len(docs) THEN <<>>
  ELSE (IF NeedsSplit(docs[k])
        THEN SubChunks(k, docs[k], split_text(docs[k]), 0)
        ELSE <<HeaderChunk(k, docs[k].len, docs[k].metadata)>>)
         \o PreliminaryChunks(docs, k + 1)

\* Steps 2 and 3 of chunk: the loop over header_docs.
SplitSegments ==
  /\ chunk_pc = "split"
  /\ preliminary_chunks' = PreliminaryChunks(header_docs, 1)
  /\ chunks_to_process' = preliminary_chunks'
  /\ chunk_pc' = "merge"
  /\ UNCHANGED <<besidesChunker, callVars, iteration, any_merges,
                 final_chunks>>

\* chunk is called once more on the same text.
ChunkAgain ==
  /\ chunk_pc = "done"
  /\ chunk_call = 1
  /\ chunk_call' = 2
  /\ first_result' = final_chunks
  /\ preliminary_chunks' = <<>>
  /\ chunks_to_process' = <<>>
  /\ iteration' = 0
  /\ any_merges' = FALSE
  /\ final_chunks' = <<>>
  /\ chunk_pc' = "split"
  /\ UNCHANGED <<besidesChunker, chunker, header_docs, textVars>>

InitChunking ==
  /\ PipelineOff
  /\ DatabaseInit
  /\ NamespaceInit
  /\ WatcherOff
  /\ chunker = DocumentChunker
  /\ TextElided
  /\ header_docs \in HeaderDocLists
  /\ chunk_call = 1
  /\ first_result = <<>>
  /\ preliminary_chunks = <<>>
  /\ chunks_to_process = <<>>
  /\ iteration = 0
  /\ any_merges = FALSE
  /\ final_chunks = <<>>
  /\ chunk_pc = "split"

NextChunking == SplitSegments \/ MergeIteration \/ ChunkReturn \/ ChunkAgain

SpecChunking == InitChunking /\ [][NextChunking]_vars

(***************************************************************************)
(* DocumentChunker.chunk from the raw text on (chunker.py 102-138 and      *)
(* 168-255).  A text is the sequence of its lines and line breaks; the     *)
(* lines are taken from the kinds of line the patterns of the class tell   *)
(* apart, written without surrounding whitespace.                          *)
(***************************************************************************)
\* The lines of a text followed.
MaxLines == 4

\* "\n"
NL == "\n"

Body == "The Tenant shall pay the Rent."
Initials == "INITIAL"
PageNumber == "22"
NumberedHeader == "# 7.02 Light Fixtures"
TocMarker == "# TABLE OF CONTENTS"
ArticleOne == "# ARTICLE 1 INTERPRETATION"
FirstSection == "1.01 Definitions"

Lines ==
  {"", Body, Initials, PageNumber, NumberedHeader, TocMarker, ArticleOne,
   FirstSection}

\* len(line)
LineLen(line) ==
  CASE line = "" -> 0
    [] line = Body -> 30
    [] line = Initials -> 7
    [] line = PageNumber -> 2
    [] line = NumberedHeader -> 21
    [] line = TocMarker -> 19
    [] line = ArticleOne -> 26
    [] line = FirstSection -> 16

\* '\n'.join(lines)
RECURSIVE join(_)
join(lines) ==
  IF lines = <<>> THEN <<>>
  ELSE (IF Head(lines) = "" THEN <<>> ELSE <<Head(lines)>>)
         \o (IF Len(lines) = 1 THEN <<>> ELSE <<NL>> \o join(Tail(lines)))

\* The position of the first line break of s, 0 without one.
FirstBreak(s) ==
  IF \E k \in 1..Len(s) : s[k] = NL
  THEN CHOOSE k \in 1..Len(s) : s[k] = NL /\ \A j \in 1..(k - 1) : s[j] # NL
  ELSE 0

\* s.split('\n')
RECURSIVE split(_)
split(s) ==
  IF FirstBreak(s) = 0
  THEN <<IF s = <<>> THEN "" ELSE s[1]>>
  ELSE <<IF FirstBreak(s) = 1 THEN "" ELSE s[1]>>
         \o split(SubSeq(s, FirstBreak(s) + 1, Len(s)))

\* The texts chunk is called on.
RawTexts == {join(lines) : lines \in UNION {[1..n -> Lines] : n \in 1..MaxLines}}

\* (?=\n#\s*ARTICLE\s+1\s+INTERPRETATION\n+1\.01): line j is the heading of
\* Article 1 and section 1.01 follows it, blank lines apart.
ArticleOneBegins(lines, j) ==
  /\ lines[j] = ArticleOne
  /\ \E n \in (j + 1)..Len(lines) :
       /\ lines[n] = FirstSection
       /\ \A b \in (j + 1)..(n - 1) : lines[b] = ""

\* TOC_SECTION_PATTERN.sub('', text): from the first marker up to the line
\* break before the next heading of Article 1, and on from there.
RECURSIVE TOC_SECTION_PATTERN_sub(_)
TOC_SECTION_PATTERN_sub(lines) ==
  LET starts == {m \in 1..Len(lines) :
                   /\ lines[m] = TocMarker
                   /\ \E j \in (m + 1)..Len(lines) : ArticleOneBegins(lines, j)}
  IN
  IF starts = {} THEN lines
  ELSE LET m == CHOOSE m \in starts : \A m2 \in starts : m <= m2
           j == CHOOSE j \in (m + 1)..Len(lines) :
                  /\ ArticleOneBegins(lines, j)
                  /\ \A j2 \in (m + 1)..(j - 1) : ~ArticleOneBegins(lines, j2)
       IN  SubSeq(lines, 1, m - 1) \o <<"">>
             \o TOC_SECTION_PATTERN_sub(SubSeq(lines, j, Len(lines)))

\* ^(#+\s+[\d.]+\s+[^\n]+)\n+(\d{1,3})\s*$ matches from line h on: a numbered
\* heading and, blank lines apart, a line that is a page number.
TocEntryAt(lines, h) ==
  /\ lines[h] = NumberedHeader
  /\ \E q \in (h + 1)..Len(lines) :
       /\ lines[q] = PageNumber
       /\ \A b \in (h + 1)..(q - 1) : lines[b] = ""

\* The first line after the page number of the entry at h that is not blank,
\* Len(lines) + 1 without one: \s*$ takes the blank lines before it.
AfterTocEntry(lines, h) ==
  LET q == CHOOSE q \in (h + 1)..Len(lines) :
             /\ lines[q] = PageNumber
             /\ \A b \in (h + 1)..(q - 1) : lines[b] = ""
      rest == {n \in (q + 1)..Len(lines) : lines[n] # ""}
  IN  IF rest = {} THEN Len(lines) + 1
      ELSE CHOOSE n \in rest : \A n2 \in rest : n <= n2

\* TOC_PATTERN.sub('', text)
RECURSIVE TOC_PATTERN_sub(_)
TOC_PATTERN_sub(lines) ==
  LET entries == {h \in 1..Len(lines) : TocEntryAt(lines, h)} IN
  IF entries = {} THEN lines
  ELSE LET h == CHOOSE h \in entries : \A h2 \in entries : h <= h2
           n == AfterTocEntry(lines, h)
       IN  SubSeq(lines, 1, h - 1) \o <<"">>
             \o (IF n > Len(lines) THEN <<>>
                 ELSE TOC_PATTERN_sub(SubSeq(lines, n, Len(lines))))

BOILERPLATE_PATTERNS_keep_page_numbers == {Initials, ""}

\* The lines that match one of BOILERPLATE_PATTERNS once stripped: INITIAL,
\* a standalone page number, an empty line.
BOILERPLATE_PATTERNS == {Initials, PageNumber, ""}

\* cleaned_lines: the loop over lines
RECURSIVE cleaned_lines(_)
cleaned_lines(lines) ==
  IF lines = <<>> THEN <<>>
  ELSE (IF Head(lines) \in BOILERPLATE_PATTERNS THEN <<>>
        ELSE <<Head(lines)>>) \o cleaned_lines(Tail(lines))

\* The number of line breaks s begins with.
RECURSIVE LeadingBreaks(_)
LeadingBreaks(s) ==
  IF s = <<>> \/ Head(s) # NL THEN 0 ELSE 1 + LeadingBreaks(Tail(s))

\* re.sub(r'\n{3,}', '\n\n', cleaned)
RECURSIVE sub_newlines(_)
sub_newlines(s) ==
  IF s = <<>> THEN <<>>
  ELSE IF Head(s) # NL THEN <<Head(s)>> \o sub_newlines(Tail(s))
  ELSE LET k == LeadingBreaks(s) IN
       (IF k >= 3 THEN <<NL, NL>> ELSE SubSeq(s, 1, k))
         \o sub_newlines(SubSeq(s, k + 1, Len(s)))

\* cleaned.strip()
RECURSIVE strip_text(_)
strip_text(s) ==
  IF s = <<>> THEN <<>>
  ELSE IF Head(s) = NL THEN strip_text(Tail(s))
  ELSE IF s[Len(s)] = NL THEN strip_text(SubSeq(s, 1, Len(s) - 1))
  ELSE s

\* Steps 0a and 0b of _clean_text.
remove_toc(s) == join(TOC_PATTERN_sub(TOC_SECTION_PATTERN_sub(split(s))))

\* _clean_text(text)
clean_text(s) ==
  strip_text(sub_newlines(join(cleaned_lines(split(remove_toc(s))))))

\* A line that starts with "# ": a header the splitter splits on.
IsHeader(line) == line \in {NumberedHeader, TocMarker, ArticleOne}

\* The lines of a cleaned text from line k on, up to the next header.
RECURSIVE SegmentEnd(_, _)
SegmentEnd(lines, k) ==
  IF k + 1 > Len(lines) \/ IsHeader(lines[k + 1]) THEN k
  ELSE SegmentEnd(lines, k + 1)

\* len of the lines a..b joined
RECURSIVE SegmentLen(_, _, _)
SegmentLen(lines, a, b) ==
  IF a > b THEN 0
  ELSE LineLen(lines[a]) + (IF a < b THEN 1 ELSE 0)
         + SegmentLen(lines, a + 1, b)

RECURSIVE HeaderSegments(_, _)
HeaderSegments(lines, k) ==
  IF k > Len(lines) THEN <<>>
  ELSE LET e == SegmentEnd(lines, k) IN
       <<[len |-> SegmentLen(lines, k, e),
          metadata |-> IF IsHeader(lines[k]) THEN "article" :> lines[k]
                       ELSE <<>>,
          layout |-> "paragraphs"]>>
         \o HeaderSegments(lines, e + 1)

\* self.header_splitter.split_text(cleaned_text): library code, taken to
\* give no segment for an empty text and one segment for each header and
\* the lines below it.
header_splitter_split_text(s) ==
  IF s = <<>> THEN <<>> ELSE HeaderSegments(split(s), 1)

\* cleaned_text = self._clean_text(text)
CleanText ==
  /\ chunk_pc = "clean"
  /\ cleaned_text' = clean_text(raw_text)
  /\ chunk_pc' = "header"
  /\ UNCHANGED <<besidesChunker, chunker, header_docs, chunk_call,
                 first_result, raw_text, preliminary_chunks,
                 chunks_to_process, iteration, any_merges, final_chunks>>

\* header_docs = self.header_splitter.split_text(cleaned_text)
HeaderSplit ==
  /\ chunk_pc = "header"
  /\ header_docs' = header_splitter_split_text(cleaned_text)
  /\ chunk_pc' = "split"
  /\ UNCHANGED <<besidesChunker, chunker, chunk_call, first_result, textVars,
                 preliminary_chunks, chunks_to_process, iteration,
                 any_merges, final_chunks>>

InitCleaning ==
  /\ PipelineOff
  /\ DatabaseInit
  /\ NamespaceInit
  /\ WatcherOff
  /\ chunker = DocumentChunker
  /\ raw_text \in RawTexts
  /\ cleaned_text = <<>>
  /\ header_docs = <<>>
  /\ chunk_call = 1
  /\ first_result = <<>>
  /\ preliminary_chunks = <<>>
  /\ chunks_to_process = <<>>
  /\ iteration = 0
  /\ any_merges = FALSE
  /\ final_chunks = <<>>
  /\ chunk_pc = "clean"

NextCleaning ==
  CleanText \/ HeaderSplit \/ SplitSegments \/ MergeIteration \/ ChunkReturn

SpecCleaning == InitCleaning /\ [][NextCleaning]_vars

(***************************************************************************)
(* utils.db.insert_lease (db.py 113-230) on the tables of init_db, called  *)
(* by callers that each open their own connection.  The SELECT reads the   *)
(* committed rows; the statements after it form one transaction, which     *)
(* get_connection commits on return and rolls back on an exception.        *)
(***************************************************************************)
DocumentNames == {"lease_a.pdf", "lease_b.pdf"}

\* data["basic_rent_schedule"]: the rent steps, in order.
RentSchedules ==
  {<<>>, <<"year_1">>, <<"year_1", "year_2">>, <<"year_2", "year_2">>}

\* base_rent: the first step's rent, None without steps.
base_rent(schedule) == IF schedule = <<>> THEN None ELSE schedule[1]

\* The id of the row of a document name in a leases table, 0 without one.
RowIdOf(tbl, name) ==
  IF \E r \in tbl : r.document_name = name
  THEN (CHOOSE r \in tbl : r.document_name = name).id
  ELSE 0

SelectId_other_name(name) ==
  IF \E r \in leases_table : r.document_name # name
  THEN (CHOOSE r \in leases_table : r.document_name # name).id
  ELSE 0

\* SELECT id FROM leases WHERE document_name = ?  (0: fetchone() gave None)
SelectId(name) ==
  IF \E r \in leases_table : r.document_name = name
  THEN (CHOOSE r \in leases_table : r.document_name = name).id
  ELSE 0

\* UPDATE leases SET ... WHERE id = ?
UpdateLeases(tbl, id, schedule) ==
  {IF r.id = id THEN [r EXCEPT !.base_rent = base_rent(schedule)] ELSE r :
     r \in tbl}

DeleteRentSchedule_keep(tbl, id) == tbl

\* DELETE FROM rent_schedule WHERE lease_id = ?
DeleteRentSchedule(tbl, id) == {r \in tbl : r.lease_id # id}

\* The loop of INSERT INTO rent_schedule, one row per step.
InsertRentSchedule(tbl, id, schedule) ==
  tbl \cup {[id |-> sqlite_sequence.rent_schedule + k, lease_id |-> id,
             step |-> schedule[k]] : k \in 1..Len(schedule)}

\* insert_lease(data, document_name) is entered and the connection opened.
InsertLeaseCall ==
  \E c \in Callers, name \in DocumentNames, schedule \in RentSchedules :
    /\ connections[c].pc \in {"idle", "returned", "raised"}
    /\ calls_made < MaxCalls
    /\ calls_made' = calls_made + 1
    /\ connections' =
         [connections EXCEPT ![c] =
            [pc |-> "select", document_name |-> name,
             basic_rent_schedule |-> schedule, existing |-> 0,
             row_at_call |-> RowIdOf(leases_table, name), lease_id |-> 0,
             error |-> None]]
    /\ UNCHANGED <<besidesDatabase, leases_table, rent_schedule,
                   sqlite_sequence>>

\* existing = cursor.fetchone()
SelectExisting ==
  \E c \in Callers :
    /\ connections[c].pc = "select"
    /\ connections' =
         [connections EXCEPT
            ![c].existing = SelectId(connections[c].document_name),
            ![c].pc = "write"]
    /\ UNCHANGED <<besidesDatabase, leases_table, rent_schedule,
                   sqlite_sequence, calls_made>>

\* if existing: UPDATE, DELETE the rent rows, INSERT the steps, commit.
UpdateExisting ==
  \E c \in Callers :
    LET me == connections[c] IN
    /\ me.pc = "write"
    /\ me.existing # 0
    /\ leases_table' =
         UpdateLeases(leases_table, me.existing, me.basic_rent_schedule)
    /\ rent_schedule' =
         InsertRentSchedule(DeleteRentSchedule(rent_schedule, me.existing),
                            me.existing, me.basic_rent_schedule)
    /\ sqlite_sequence' =
         [sqlite_sequence EXCEPT
            !.rent_schedule = @ + Len(me.basic_rent_schedule)]
    /\ connections' =
         [connections EXCEPT ![c].pc = "returned",
                             ![c].lease_id = me.existing]
    /\ UNCHANGED <<besidesDatabase, calls_made>>

\* else: INSERT INTO leases, lease_id = cursor.lastrowid, INSERT the steps,
\* commit.
InsertNew ==
  \E c \in Callers :
    LET me == connections[c]
        id == sqlite_sequence.leases + 1
    IN
    /\ me.pc = "write"
    /\ me.existing = 0
    /\ \A r \in leases_table : r.document_name # me.document_name
    /\ leases_table' =
         leases_table \cup
           {[id |-> id, document_name |-> me.document_name,
             base_rent |-> base_rent(me.basic_rent_schedule)]}
    /\ rent_schedule' =
         InsertRentSchedule(rent_schedule, id, me.basic_rent_schedule)
    /\ sqlite_sequence' =
         [leases |-> id,
          rent_schedule |->
            sqlite_sequence.rent_schedule + Len(me.basic_rent_schedule)]
    /\ connections' =
         [connections EXCEPT ![c].pc = "returned", ![c].lease_id = id]
    /\ UNCHANGED <<besidesDatabase, calls_made>>

\* else: INSERT INTO leases meets a row of that document_name committed since
\* the SELECT: document_name is UNIQUE, sqlite3.IntegrityError, rollback,
\* raise.
InsertIntegrityError ==
  \E c \in Callers :
    LET me == connections[c] IN
    /\ me.pc = "write"
    /\ me.existing = 0
    /\ \E r \in leases_table : r.document_name = me.document_name
    /\ connections' =
         [connections EXCEPT
            ![c].pc = "raised",
            ![c].error = "UNIQUE constraint failed: leases.document_name"]
    /\ UNCHANGED <<besidesDatabase, leases_table, rent_schedule,
                   sqlite_sequence, calls_made>>

InitDatabase ==
  PipelineOff /\ ChunkerOff /\ DatabaseInit /\ NamespaceInit /\ WatcherOff

NextDatabase ==
  \/ InsertLeaseCall \/ SelectExisting
  \/ UpdateExisting \/ InsertNew \/ InsertIntegrityError

SpecDatabase == InitDatabase /\ [][NextDatabase]_vars

(***************************************************************************)
(* The upsert stage of run (ingest_pipeline.py 293-331) of pipeline runs   *)
(* that share one namespace of the vector index.  The retries of a batch   *)
(* are followed in Spec; here a batch is applied or fails for good.        *)
(***************************************************************************)
\* file_path: folder, name without suffix, suffix.
FilePaths ==
  {<<"input", "lease", ".pdf">>, <<"input", "lease", ".docx">>,
   <<"archive", "lease", ".pdf">>, <<"input", "amendment", ".pdf">>}

\* What the parser reads from the file: a revision of its text, which the
\* chunker cuts into a number of chunks.
Texts == {"rev_1", "rev_2"} \X (0..MaxChunks)

\* Path(file_path).stem
stem(file_path) == file_path[2]

\* os.path.basename(file_path)
basename(file_path) == <<file_path[2], file_path[3]>>

vector_id_of_first(file_path, k) == <<stem(file_path), 0>>

\* f"{Path(file_path).stem}_chunk_{i}"
vector_id_of(file_path, k) == <<stem(file_path), k>>

\* len(vectors_to_upsert) of a run
NumVectors(run) == run.text[2]

\* vectors_to_upsert[k] of a run (k 0-based)
RunVector(run, k) ==
  [id |-> vector_id_of(run.file_path, k),
   values |-> [kind |-> "real", of |-> <<run.text[1], k>>],
   metadata |-> [document |-> basename(run.file_path), chunk_index |-> k]]

\* batch = vectors_to_upsert[i:i + batch_size]
RunBatch(run) ==
  {RunVector(run, k) : k \in run.i..(Min(run.i + batch_size, NumVectors(run)) - 1)}

NamespaceUpsert_append(ns, batch) == ns \cup batch

\* index.upsert(vectors=batch, namespace=...): a vector replaces the one
\* stored under its id.
NamespaceUpsert(ns, batch) ==
  {v \in ns : \A b \in batch : b.id # v.id} \cup batch

\* The run after the batch at i: the next batch, or the end of the loop.
AfterBatch(run) ==
  [run EXCEPT !.i = @ + batch_size,
              !.pc = IF run.i + batch_size < NumVectors(run)
                     THEN "upsert" ELSE "done"]

\* run(file_path) has built vectors_to_upsert and enters the upsert loop;
\* earlier records the runs that had returned by then.
UpsertStageBegins ==
  \E r \in Runs, path \in FilePaths, text \in Texts :
    /\ runs[r].pc = "idle"
    /\ runs' = [runs EXCEPT ![r] =
                  [pc |-> IF text[2] = 0 THEN "done" ELSE "upsert",
                   file_path |-> path, text |-> text, i |-> 0,
                   failed_vectors |-> {},
                   earlier |-> {r2 \in Runs : runs[r2].pc = "done"}]]
    /\ UNCHANGED <<besidesIndex, namespace, last_upsert, deletes>>

\* index.upsert of the current batch returns.
BatchUpserted ==
  \E r \in Runs :
    /\ runs[r].pc = "upsert"
    /\ namespace' = NamespaceUpsert(namespace, RunBatch(runs[r]))
    /\ last_upsert' =
         [id \in DOMAIN last_upsert \cup {v.id : v \in RunBatch(runs[r])} |->
            IF \E v \in RunBatch(runs[r]) : v.id = id
            THEN CHOOSE v \in RunBatch(runs[r]) : v.id = id
            ELSE last_upsert[id]]
    /\ runs' = [runs EXCEPT ![r] = AfterBatch(runs[r])]
    /\ UNCHANGED <<besidesIndex, deletes>>

\* index.upsert of the current batch raised max_retries times.
BatchFailed ==
  \E r \in Runs :
    /\ runs[r].pc = "upsert"
    /\ runs' = [runs EXCEPT ![r] =
                  [AfterBatch(runs[r]) EXCEPT !.failed_vectors =
                     @ \cup {v.id : v \in RunBatch(runs[r])}]]
    /\ UNCHANGED <<besidesIndex, namespace, last_upsert, deletes>>

\* The calls of delete_by_document followed.
MaxDeletes == 1

\* top_k of the query of delete_by_document
top_k == 10000

\* The document names callers pass: the names of the ingested files.
DocumentNamesOf == {basename(path) : path \in FilePaths}

\* self.index.query(vector=dummy_embedding, top_k=10000, namespace=...,
\*   filter={"source_document": {"$eq": document_name}}).matches: the vectors
\* whose metadata hold that value under the key source_document (the
\* namespaces followed hold fewer vectors than top_k).
query_filter(ns, name) ==
  {v \in ns : /\ "source_document" \in DOMAIN v.metadata
              /\ v.metadata["source_document"] = name}

\* LeaseVectorStore.delete_by_document(document_name) (vector_store.py
\* 209-254): query the ids under the metadata filter, return 0 without
\* matches, else self.index.delete(ids=vector_ids) and return their number.
delete_by_document ==
  \E name \in DocumentNamesOf :
    LET matches == query_filter(namespace, name)
        vector_ids == {match.id : match \in matches}
    IN
    /\ Len(deletes) < MaxDeletes
    /\ Cardinality(namespace) <= top_k
    /\ namespace' = {v \in namespace : v.id \notin vector_ids}
    /\ last_upsert' = [id \in DOMAIN last_upsert \ vector_ids |->
                         last_upsert[id]]
    /\ deletes' = Append(deletes, [document_name |-> name,
                                   returned |-> Cardinality(vector_ids)])
    /\ UNCHANGED <<besidesIndex, runs>>

InitIndex ==
  PipelineOff /\ ChunkerOff /\ DatabaseInit /\ NamespaceInit /\ WatcherOff

NextIndex ==
  \/ UpsertStageBegins \/ BatchUpserted \/ BatchFailed
  \/ delete_by_document

SpecIndex == InitIndex /\ [][NextIndex]_vars

(***************************************************************************)
(* The file watcher (file_watcher.py): IngestionHandler.on_created queues  *)
(* the files that appear in the input folder, forget_file takes a name off *)
(* the ignore list, and process_file runs the pipeline on a file and logs  *)
(* the outcome with utils.db.log_ingestion (db.py 358-397).  A file name   *)
(* is its stem and its suffix.                                             *)
(***************************************************************************)
\* The calls of process_file followed.
MaxProcessCalls == 2

\* The files on_created queues in a behaviour.
MaxQueued == 2

FileNames ==
  {<<"lease", ".pdf">>, <<"amendment", ".PDF">>, <<"~$lease", ".docx">>,
   <<"notes", ".txt">>}

WATCHDOG_SUPPORTED_EXTENSIONS == {".pdf", ".docx", ".doc", ".md"}

\* str.lower() of a suffix
lower(suffix) == IF suffix = ".PDF" THEN ".pdf" ELSE suffix

\* file_path.suffix.lower() in WATCHDOG_SUPPORTED_EXTENSIONS
Supported(file_name) == lower(file_name[2]) \in WATCHDOG_SUPPORTED_EXTENSIONS

\* file_name.startswith("~$")
IsTemporary(file_name) == file_name[1] = "~$lease"

\* _get_existing_files(): the supported files of the input folder
get_existing_files(folder) == {f \in folder : Supported(f)}

\* SELECT id FROM ingestion_logs WHERE document_name = ? AND status =
\* 'success' LIMIT 1: fetchone() is not None
is_document_processed(document) ==
  \E k \in 1..Len(ingestion_logs) :
    /\ ingestion_logs[k].document_name = document
    /\ ingestion_logs[k].status = "success"

\* The keys of _pending_files.
PendingNames == {pf.file_name : pf \in pending_files}

\* IngestionHandler._pending_files[file_name] = pending
SetPending(pending, pf) ==
  {q \in pending : q.file_name # pf.file_name} \cup {pf}

\* remove_pending(file_name)
remove_pending(pending, file_name) ==
  {q \in pending : q.file_name # file_name}

\* on_created(event) for a file that has appeared in the input folder, or a
\* directory.
on_created ==
  \E file_name \in FileNames, is_directory \in BOOLEAN :
    LET queues ==
          /\ ~is_directory
          /\ Supported(file_name)
          /\ ~IsTemporary(file_name)
          /\ file_name \notin startup_files
          /\ ~is_document_processed(file_name)
    IN
    /\ queues => queued_count < MaxQueued
    /\ input_folder' =
         IF is_directory THEN input_folder ELSE input_folder \cup {file_name}
    /\ IF queues
       THEN /\ pending_files' =
                 SetPending(pending_files,
                            [file_name |-> file_name,
                             file_path |-> <<"input">> \o file_name])
            /\ queued_count' = queued_count + 1
            /\ last_queued' = file_name
       ELSE UNCHANGED <<pending_files, queued_count, last_queued>>
    /\ UNCHANGED <<besidesWatcher, startup_files, ingestion_logs,
                   processed_folder, process_count, last_call, succeeded>>

\* forget_file(file_name)
forget_file ==
  \E file_name \in FileNames :
    /\ startup_files' = startup_files \ {file_name}
    /\ UNCHANGED <<besidesWatcher, pending_files, ingestion_logs,
                   input_folder, processed_folder, process_count, last_call,
                   queued_count, last_queued, succeeded>>

\* delete_ingestion_log(document_name): DELETE FROM ingestion_logs WHERE
\* document_name = ?
RECURSIVE DeleteLogs(_, _)
DeleteLogs(logs, document) ==
  IF logs = <<>> THEN <<>>
  ELSE (IF Head(logs).document_name = document THEN <<>> ELSE <<Head(logs)>>)
         \o DeleteLogs(Tail(logs), document)

delete_ingestion_log ==
  \E document \in FileNames :
    /\ ingestion_logs' = DeleteLogs(ingestion_logs, document)
    /\ succeeded' = succeeded \ {document}
    /\ UNCHANGED <<besidesWatcher, pending_files, startup_files,
                   input_folder, processed_folder, process_count, last_call,
                   queued_count, last_queued>>

\* The parameters of log_ingestion (db.py 358-366).
log_ingestion_parameters ==
  {"document_name", "status", "chunks_processed", "vectors_uploaded",
   "processing_time_seconds", "error_message", "db_path"}

\* The keyword arguments of the call of log_ingestion on a success result
\* (file_watcher.py 218-226).
SuccessKeywords ==
  {"document_name", "status", "chunks_processed", "vectors_uploaded",
   "processing_time_seconds", "extraction_mode", "db_path"}

\* The keyword arguments of the calls of log_ingestion on a failure result
\* and in the exception handler (file_watcher.py 256-262, 273-279).
FailedKeywords ==
  {"document_name", "status", "error_message", "extraction_mode", "db_path"}

\* A call with a keyword argument the function does not have raises
\* TypeError before the body runs.
LogRaises(keywords) == ~(keywords \subseteq log_ingestion_parameters)

\* INSERT INTO ingestion_logs
log_ingestion(logs, document, status, error_message) ==
  Append(logs, [document_name |-> document, status |-> status,
                error_message |-> error_message])

\* The methods IngestionPipeline defines that process_file calls.
PipelineMethods == {"run"}

Modes == {"full", "clause_only"}

\* What self.pipeline.run(file_path) does: a success result, a failure
\* result, or the pipeline cannot be built and the property raises.
RunOutcomes == {"success", "failure", "exception"}

\* The exception the try block of process_file ends with, None without one.
TryError(mode, outcome) ==
  CASE mode = "clause_only" /\ "run_clause_only" \notin PipelineMethods ->
         "AttributeError"
    [] OTHER ->
         CASE outcome = "exception" -> "pipeline could not be initialized"
           [] outcome = "success" /\ LogRaises(SuccessKeywords) -> "TypeError"
           [] outcome = "failure" /\ LogRaises(FailedKeywords) -> "TypeError"
           [] OTHER -> None

\* process_file(file_path, mode), the whole call.
process_file ==
  \E file_name \in FileNames, mode \in Modes, outcome \in RunOutcomes,
     temp_pdf_exists \in BOOLEAN :
    LET e == TryError(mode, outcome)
        call == [file_name |-> file_name, mode |-> mode,
                 outcome |-> IF mode = "full" THEN outcome ELSE "exception",
                 ended |-> "returned", success |-> FALSE, error |-> None]
    IN
    /\ process_count < MaxProcessCalls
    /\ process_count' = process_count + 1
    /\ succeeded' = IF mode = "full" /\ outcome = "success"
                    THEN succeeded \cup {file_name} ELSE succeeded
    /\ CASE e = None /\ outcome = "success" ->
              \* if result.success: log, move, copy the preview, remove
              /\ ingestion_logs' =
                   log_ingestion(ingestion_logs, file_name, "success", None)
              /\ input_folder' = input_folder \ {file_name}
              /\ processed_folder' =
                   processed_folder
                     \cup (IF file_name \in input_folder
                           THEN {file_name} ELSE {})
                     \cup (IF lower(file_name[2]) = ".docx" /\ temp_pdf_exists
                           THEN {<<file_name[1], ".pdf">>} ELSE {})
              /\ pending_files' = remove_pending(pending_files, file_name)
              /\ last_call' = [call EXCEPT !.success = TRUE]
         [] e = None /\ outcome = "failure" ->
              \* else: log the failure, remove
              /\ ingestion_logs' =
                   log_ingestion(ingestion_logs, file_name, "failed",
                                 "run failed")
              /\ pending_files' = remove_pending(pending_files, file_name)
              /\ last_call' = [call EXCEPT !.error = "run failed"]
              /\ UNCHANGED <<input_folder, processed_folder>>
         [] e # None /\ ~LogRaises(FailedKeywords) ->
              \* except Exception as e: log the failure, remove
              /\ ingestion_logs' =
                   log_ingestion(ingestion_logs, file_name, "failed", e)
              /\ pending_files' = remove_pending(pending_files, file_name)
              /\ last_call' = [call EXCEPT !.error = e]
              /\ UNCHANGED <<input_folder, processed_folder>>
         [] e # None /\ LogRaises(FailedKeywords) ->
              \* except Exception as e: log_ingestion raises in the handler
              /\ last_call' = [call EXCEPT !.ended = "raised",
                                           !.error = "TypeError"]
              /\ UNCHANGED <<ingestion_logs, pending_files, input_folder,
                             processed_folder>>
    /\ UNCHANGED <<besidesWatcher, startup_files, queued_count, last_queued>>

\* IngestionHandler(): the files in the input folder at startup are ignored.
InitWatcher ==
  /\ PipelineOff
  /\ ChunkerOff
  /\ DatabaseInit
  /\ NamespaceInit
  /\ input_folder \in SUBSET FileNames
  /\ startup_files = get_existing_files(input_folder)
  /\ pending_files = {}
  /\ ingestion_logs = <<>>
  /\ processed_folder = {}
  /\ process_count = 0
  /\ last_call = NoCall
  /\ queued_count = 0
  /\ last_queued = <<>>
  /\ succeeded = {}

NextWatcher ==
  on_created \/ forget_file \/ delete_ingestion_log \/ process_file

SpecWatcher == InitWatcher /\ [][NextWatcher]_vars

(***************************************************************************)
(* Vocabulary of the properties.                                           *)
(***************************************************************************)
StageBegun(st) == \E k \in 1..Len(stages) : stages[k] = st

LastStage == IF stages = <<>> THEN "" ELSE stages[Len(stages)]

\* Number of batches of size bs that n items make.
NumBatches(n, bs) == (n + bs - 1) \div bs

\* 0-based positions of the items of batch b (1-based) among n items.
BatchPositions(b, n, bs) == ((b - 1) * bs)..(Min(b * bs, n) - 1)

Failed(outcome) == {b \in 1..Len(outcome) : outcome[b] = "failed"}

SeqToSet(q) == {q[k] : k \in 1..Len(q)}

EmbeddingResolved == pc = "build" \/ StageBegun("upsert")

RealVector(k) == Embed(enriched_content(enriched_chunks[k]))

NChunks == Len(enriched_chunks)

EmbBatch == config.embedding_batch_size

\* C1: once the embedding stage is over, whatever batches failed, the
\* embedding list has one entry per enriched chunk, entry k is either the
\* provider's vector for chunk k or a zero placeholder, and a batch is all
\* real (it succeeded) or all placeholders (it exhausted its retries).
C1_EmbeddingAlignment ==
  EmbeddingResolved =>
    /\ Len(all_embeddings) = NChunks
    /\ Len(emb_outcome) = NumBatches(NChunks, EmbBatch)
    /\ \A b \in 1..Len(emb_outcome) :
         \A p \in BatchPositions(b, NChunks, EmbBatch) :
           all_embeddings[p + 1] =
             IF emb_outcome[b] = "ok" THEN RealVector(p + 1) ELSE placeholder

C1_Witness ==
  /\ EmbeddingResolved
  /\ EmbBatch = 2
  /\ NChunks = 3
  /\ emb_outcome = <<"failed", "ok">>

\* C2: when exactly one embedding batch exhausted its retries, the vectors
\* built for the chunks outside it carry the provider's real vector under
\* the chunk's own id, the chunks of the failed batch carry placeholders,
\* failed_embedding_indices is exactly the positions of the failed batch,
\* and what reached the index is what was built.
C2_FailureIsolation ==
  (StageBegun("upsert") /\ Cardinality(Failed(emb_outcome)) = 1) =>
    LET b == CHOOSE x \in Failed(emb_outcome) : TRUE
        bad == BatchPositions(b, NChunks, EmbBatch)
    IN /\ Len(vectors_to_upsert) = NChunks
       /\ \A k \in 1..NChunks :
            /\ vectors_to_upsert[k].id = vector_id(k - 1)
            /\ vectors_to_upsert[k].metadata.chunk_index = k - 1
            /\ vectors_to_upsert[k].values =
                 IF (k - 1) \in bad THEN placeholder ELSE RealVector(k)
       /\ SeqToSet(failed_embedding_indices) = bad
       /\ Len(failed_embedding_indices) = Cardinality(bad)
       /\ \A id \in DOMAIN index :
            index[id].values = vectors_to_upsert[id[2] + 1].values

C2_Witness ==
  /\ pc = "done"
  /\ result.success
  /\ NChunks = 3
  /\ emb_outcome = <<"ok", "failed", "ok">>
  /\ ups_outcome = <<"ok", "ok">>
  /\ index[vector_id(0)].values.kind = "real"
  /\ index[vector_id(1)].values.kind = "zero"
  /\ index[vector_id(2)].values.kind = "real"

\* C3: a batch (embedding or upsert) is attempted at most 3 times; a call is
\* only ever made for a batch that is not resolved yet, so retrying stops at
\* the first success and after the third failure; the backoff after failed
\* attempt k (k = 0, 1) is 2^k seconds, and no backoff follows the third
\* failure.
C3_BoundedRetry ==
  /\ tries <= 3
  /\ pc \in {"embed_call", "embed_backoff"} =>
       Len(emb_outcome) = i \div EmbBatch
  /\ pc \in {"upsert_call", "upsert_backoff"} =>
       Len(ups_outcome) = i \div batch_size
  /\ pc \in {"embed_call", "upsert_call"} => tries = attempt /\ attempt <= 2
  /\ pc \in {"embed_backoff", "upsert_backoff"} =>
       /\ attempt \in {0, 1}
       /\ tries = attempt + 1
       /\ backoff_secs = (IF attempt = 0 THEN 1 ELSE 2)
  /\ pc \notin {"embed_backoff", "upsert_backoff"} => backoff_secs = 0

C3_Witness ==
  /\ pc = "upsert_loop"
  /\ tries = 3
  /\ ups_outcome = <<"failed">>
  /\ backoff_secs = 0
  /\ Failed(emb_outcome) # {}

\* The ids of the vectors of upsert batch b.
UpsertBatchIds(b) ==
  {vector_id(p) :
     p \in BatchPositions(b, Len(vectors_to_upsert), batch_size)}

RECURSIVE FailedIds(_)
\* The ids of the failed batches among the first b, in batch order.
FailedIds(b) ==
  IF b = 0 THEN <<>>
  ELSE FailedIds(b - 1) \o
         (IF ups_outcome[b] = "failed"
          THEN [k \in 1..Cardinality(UpsertBatchIds(b)) |->
                  vector_id((b - 1) * batch_size + k - 1)]
          ELSE <<>>)

\* C4: the failed list is exactly the ids of the upsert batches that
\* exhausted their retries, in order; the vectors of the batches that
\* succeeded are in the index and not in the list; and when the run moves on
\* to the lease record every upsert batch has been attempted and resolved.
C4_UpsertExhaustion ==
  StageBegun("upsert") =>
    /\ failed_vectors = FailedIds(Len(ups_outcome))
    /\ \A b \in 1..Len(ups_outcome) :
         ups_outcome[b] = "ok" =>
           /\ UpsertBatchIds(b) \subseteq DOMAIN index
           /\ UpsertBatchIds(b) \cap SeqToSet(failed_vectors) = {}
    /\ (pc = "persist" \/ StageBegun("persist")) =>
         Len(ups_outcome) = NumBatches(Len(vectors_to_upsert), batch_size)

C4_Witness ==
  /\ pc = "persist"
  /\ Len(vectors_to_upsert) = 3
  /\ ups_outcome = <<"failed", "ok">>
  /\ failed_vectors = <<vector_id(0), vector_id(1)>>
  /\ DOMAIN index = {vector_id(2)}

FatalErrors == {ParseError, ExtractError, EnrichError, StoreError}

\* C5: a run ends in success=false only when the parser, the extractor, the
\* enricher or the lease-record write raised; embedding batches, upsert
\* batches and per-chunk LLM enrichment failing never make it fail: once the
\* lease record is written the result is success=true.
C5_DegradedStillSucceeds ==
  pc = "done" =>
    /\ ~raised
    /\ returned = 1
    /\ result.success \/ result.error_message \in FatalErrors
    /\ StageBegun("clauses") => result.success

C5_Witness ==
  /\ pc = "done"
  /\ result.success
  /\ config.enricher = "llm"
  /\ \E k \in 1..NChunks : enriched_chunks[k].contextual_summary = ""
  /\ Failed(emb_outcome) # {}
  /\ Failed(ups_outcome) = 1..Len(ups_outcome)
  /\ Len(ups_outcome) = 2

\* C6: a run that ended in the parse or the extraction stage returned a
\* failure result with zero chunks, zero vectors and an error message, and
\* made no embedding call, no upsert and no write to the relational store.
C6_FatalBeforeEmbedding ==
  (pc = "done" /\ LastStage \in {"parse", "extract"}) =>
    /\ returned = 1
    /\ result.success = FALSE
    /\ result.chunks_processed = 0
    /\ result.vectors_uploaded = 0
    /\ result.lease_data = None
    /\ result.error_message \in {ParseError, ExtractError}
    /\ called \cap {"embeddings", "index", "store", "insert_clauses"} = {}
    /\ index = <<>>
    /\ leases = <<>>
    /\ clause_rows = {}

C6_Witness ==
  /\ pc = "done"
  /\ LastStage = "extract"
  /\ Len(chunks) = 3
  /\ result.error_message = ExtractError

\* C7 (as claimed): once the embedding stage has begun, no failure of the
\* embedding provider, the vector index, insert_lease or clause extraction
\* makes the result success=false.
C7_NoFailureAfterEmbedding ==
  (pc = "done" /\ StageBegun("embed")) => result.success

\* str(e) of the exception a run that ended in stage st raised.
ErrorOfStage(st) ==
  CASE st = "parse" -> ParseError
    [] st = "extract" -> ExtractError
    [] st = "enrich" -> EnrichError
    [] st = "persist" -> StoreError
    [] OTHER -> None

\* C8: run never raises and returns exactly one PipelineResult: none while
\* it runs, one when it is over; an exception that leaves a stage becomes a
\* failure result whose error_message is str(e).
C8_OneResultNeverRaises ==
  /\ ~raised
  /\ returned = (IF pc = "done" THEN 1 ELSE 0)
  /\ (pc = "done" /\ LastStage # "clauses") =>
       result = FailureResult(ErrorOfStage(LastStage))
  /\ (pc = "done" /\ LastStage = "clauses") => result = SuccessResult

C8_Witness ==
  /\ pc = "done"
  /\ LastStage = "persist"
  /\ returned = 1
  /\ result.error_message = StoreError
  /\ DOMAIN index # {}

StageOrder ==
  <<"parse", "chunk", "extract", "enrich", "embed", "upsert", "persist",
    "clauses">>

ClauseStageFailed ==
  /\ StageBegun("clauses")
  /\ clause_rows = {}
  /\ "clause_extractor" \notin called \/ "insert_clauses" \in called

\* What the upsert batches that succeeded put in the index.
UpsertedIndex ==
  [id \in UNION {UpsertBatchIds(b) :
                   b \in {x \in 1..Len(ups_outcome) : ups_outcome[x] = "ok"}}
     |-> [values |-> vectors_to_upsert[id[2] + 1].values,
          metadata |-> vectors_to_upsert[id[2] + 1].metadata]]

\* C11: when the clause stage fails, run still returns success=true with
\* chunks_processed, vectors_uploaded and lease_data as in a run whose clause
\* stage succeeded, and the vectors and the lease row written before are
\* still in place.
C11_ClauseFailureNonFatal ==
  (pc = "done" /\ ClauseStageFailed) =>
    /\ returned = 1
    /\ result.success
    /\ result.chunks_processed = Len(chunks)
    /\ result.vectors_uploaded = Len(vectors_to_upsert)
    /\ result.lease_data = lease
    /\ result.error_message = None
    /\ DOMAIN leases = {document_name}
    /\ leases[document_name] = lease
    /\ index = UpsertedIndex

C11_Witness ==
  /\ pc = "done"
  /\ ClauseStageFailed
  /\ "insert_clauses" \in called
  /\ Len(chunks) = 3
  /\ ups_outcome = <<"ok", "ok">>
  /\ result.success

(***************************************************************************)
(* Vocabulary of the chunker properties.                                   *)
(***************************************************************************)
\* The document segments whose text a chunk carries.
SegmentsOf(c) == {c.content[j].seg : j \in 1..Len(c.content)} \ {0}

\* Segment k entered merging below the orphan threshold with a chunk after it.
OrphanWithNext(k) ==
  /\ k \in 1..(Len(preliminary_chunks) - 1)
  /\ BelowThreshold(preliminary_chunks[k])

\* The contents of the preliminary chunks lo..hi, a blank line between each.
RECURSIVE Joined(_, _)
Joined(lo, hi) ==
  IF lo = hi THEN preliminary_chunks[lo].content
  ELSE Joined(lo, hi - 1) \o <<BlankLine>> \o preliminary_chunks[hi].content

\* The union of the metadata of the preliminary chunks lo..hi, in which the
\* value of the latest chunk that has a key wins.
UnionLaterWins(lo, hi) ==
  LET has(key) == {k \in lo..hi : key \in DOMAIN preliminary_chunks[k].metadata}
      latest(key) == CHOOSE k \in has(key) : \A m \in has(key) : m <= k
  IN [key \in UNION {DOMAIN preliminary_chunks[k].metadata : k \in lo..hi} |->
        preliminary_chunks[latest(key)].metadata[key]]

\* Chunk c is the fusion of the preliminary chunks lo..hi.
FusionOf(c, lo, hi) ==
  /\ c.content = Joined(lo, hi)
  /\ c.metadata = UnionLaterWins(lo, hi)

\* The final chunks are fusions of consecutive preliminary chunks that cover
\* all of them, in order: no text is dropped.
NothingDropped ==
  \E cut \in [0..Len(final_chunks) -> 0..Len(preliminary_chunks)] :
    /\ cut[0] = 0
    /\ cut[Len(final_chunks)] = Len(preliminary_chunks)
    /\ \A j \in 1..Len(final_chunks) :
         /\ cut[j - 1] < cut[j]
         /\ FusionOf(final_chunks[j], cut[j - 1] + 1, cut[j])

\* C18: the merge loop ends within max_iterations passes, and when it has
\* ended no chunk but possibly the last is below the orphan threshold (no
\* merge is left to make).
C18_MergeTerminates ==
  /\ iteration <= max_iterations
  /\ chunk_pc = "done" =>
       \A j \in 1..(Len(final_chunks) - 1) : ~BelowThreshold(final_chunks[j])

C18_Witness ==
  /\ chunk_pc = "done"
  /\ iteration = 3
  /\ Len(preliminary_chunks) = 4
  /\ Len(final_chunks) = 1

\* C19, as stated: a chunk below the orphan threshold that is followed by
\* another chunk ends in one output chunk with that next chunk.
C19_FusedWithNext ==
  chunk_pc = "done" =>
    \A k \in 1..Len(preliminary_chunks) :
      OrphanWithNext(k) =>
        \E j \in 1..Len(final_chunks) :
          {k, k + 1} \subseteq SegmentsOf(final_chunks[j])

\* C19, amended: a chunk below the orphan threshold that is followed by
\* another chunk never stands alone in the output: it is fused with its next
\* chunk, or with the orphan before it that took it as its own next chunk.
\* Every output chunk is the contents of consecutive chunks joined by blank
\* lines, its metadata their union with the later chunk winning, and no text
\* is dropped.
C19_FusedWithNeighbour ==
  chunk_pc = "done" =>
    /\ NothingDropped
    /\ \A k \in 1..Len(preliminary_chunks) :
         OrphanWithNext(k) =>
           \E j \in 1..Len(final_chunks) :
             \/ {k, k + 1} \subseteq SegmentsOf(final_chunks[j])
             \/ /\ {k - 1, k} \subseteq SegmentsOf(final_chunks[j])
                /\ OrphanWithNext(k - 1)

C19_Witness ==
  /\ chunk_pc = "done"
  /\ Len(preliminary_chunks) = 3
  /\ OrphanWithNext(1)
  /\ OrphanWithNext(2)
  /\ Len(final_chunks) = 2
  /\ SegmentsOf(final_chunks[1]) = {1, 2}
  /\ preliminary_chunks[1].metadata # preliminary_chunks[2].metadata
  /\ final_chunks[1].metadata = preliminary_chunks[2].metadata

\* C20: a pass never merges the last chunk into something after it: the last
\* chunk of the list is the last chunk after the pass, unchanged, or the
\* orphan before it absorbed it and its content ends the new last chunk.
C20_LastChunkKept ==
  [][(chunk_pc = "merge" /\ chunks_to_process # <<>>) =>
       LET n == Len(chunks_to_process)
           last == chunks_to_process[n]
           m == Len(chunks_to_process')
       IN /\ m >= 1
          /\ \/ chunks_to_process'[m] = last
             \/ /\ n >= 2
                /\ BelowThreshold(chunks_to_process[n - 1])
                /\ chunks_to_process'[m].content =
                     chunks_to_process[n - 1].content \o <<BlankLine>>
                       \o last.content]_vars

C20_Witness ==
  /\ chunk_pc = "done"
  /\ iteration = 1
  /\ Len(preliminary_chunks) = 2
  /\ BelowThreshold(preliminary_chunks[2])
  /\ final_chunks = preliminary_chunks

(***************************************************************************)
(* Vocabulary of the database properties.                                  *)
(***************************************************************************)
\* The rent_schedule rows of a lease.
RentRows(tbl, id) == {r \in tbl : r.lease_id = id}

\* The steps of the rent_schedule rows of a lease, in the order of the rows.
StepsOf(tbl, id) ==
  LET rows == RentRows(tbl, id) IN
  [k \in 1..Cardinality(rows) |->
     (CHOOSE r \in rows :
        Cardinality({q \in rows : q.id <= r.id}) = k).step]

\* The call of caller c ends in this step.
CallEnds(c) == connections[c].pc = "write" /\ connections'[c].pc # "write"

\* The call of caller c returns in this step.
CallReturns(c) ==
  connections[c].pc = "write" /\ connections'[c].pc = "returned"

\* C13: the leases table never holds two rows of one document name and a row
\* keeps its id and name; a call for a name that had a row when the call
\* began updates that row and returns its id, and every call that returns
\* returns the id of the row of its name.
C13_OneRowPerName ==
  [][/\ \A name \in DocumentNames :
          Cardinality({r \in leases_table' : r.document_name = name}) <= 1
     /\ \A r \in leases_table :
          \E q \in leases_table' :
            q.id = r.id /\ q.document_name = r.document_name
     /\ \A c \in Callers :
          CallEnds(c) =>
            /\ connections[c].row_at_call # 0 =>
                 /\ connections'[c].pc = "returned"
                 /\ connections'[c].lease_id = connections[c].row_at_call
                 /\ Cardinality(leases_table') = Cardinality(leases_table)
            /\ connections'[c].pc = "returned" =>
                 connections'[c].lease_id =
                   RowIdOf(leases_table', connections[c].document_name)]_vars

C13_Witness ==
  /\ calls_made = 3
  /\ Cardinality(leases_table) = 2
  /\ \E c \in Callers :
       /\ connections[c].pc = "returned"
       /\ connections[c].row_at_call # 0
       /\ connections[c].lease_id = connections[c].row_at_call

\* C14: when insert_lease(data, name) returns, the rent_schedule rows of the
\* lease named name are the steps of data's basic_rent_schedule, in number,
\* values and order, and the rows of every other lease are as before.
C14_RentScheduleReplaced ==
  [][\A c \in Callers :
       CallReturns(c) =>
         LET id == connections'[c].lease_id IN
         /\ id = RowIdOf(leases_table', connections[c].document_name)
         /\ id # 0
         /\ StepsOf(rent_schedule', id) = connections[c].basic_rent_schedule
         /\ \A r \in leases_table :
              r.id # id =>
                RentRows(rent_schedule', r.id) = RentRows(rent_schedule, r.id)]_vars

C14_Witness ==
  /\ Cardinality(leases_table) = 2
  /\ \A r \in leases_table : RentRows(rent_schedule, r.id) # {}
  /\ \E c \in Callers :
       /\ connections[c].pc = "returned"
       /\ connections[c].row_at_call # 0
       /\ connections[c].basic_rent_schedule = <<"year_2", "year_2">>
       /\ StepsOf(rent_schedule, connections[c].lease_id)
            = <<"year_2", "year_2">>
       /\ sqlite_sequence.rent_schedule = 4

\* C15, as stated: insert_lease calls that interleave all complete without
\* an error.
C15_NoCallRaises ==
  \A c \in Callers : connections[c].pc # "raised"

(***************************************************************************)
(* Vocabulary of the index properties.                                     *)
(***************************************************************************)
\* The vectors the namespace holds under an id.
StoredUnder(id) == {v \in namespace : v.id = id}

\* Both runs have left the upsert stage.
BothDone == \A r \in Runs : runs[r].pc = "done"

\* The ids under which a run writes its vectors.
IdsOf(run) == {RunVector(run, k).id : k \in 0..(NumVectors(run) - 1)}

\* C12: after two runs on the same file path whose parser returned the same
\* text, the namespace holds no more vectors than one run writes: chunk k is
\* stored once, under the id made of the stem and k, unless its batch failed
\* in both runs.
C12_NoVectorGrowth ==
  \A r1, r2 \in Runs :
    (/\ r1 # r2
     /\ BothDone
     /\ runs[r1].file_path = runs[r2].file_path
     /\ runs[r1].text = runs[r2].text) =>
       /\ Cardinality(namespace) <= NumVectors(runs[r1])
       /\ \A k \in 0..(NumVectors(runs[r1]) - 1) :
            LET id == <<stem(runs[r1].file_path), k>> IN
            id \notin runs[r1].failed_vectors \cap runs[r2].failed_vectors =>
              /\ Cardinality(StoredUnder(id)) = 1
              /\ \A v \in StoredUnder(id) :
                   v.values = [kind |-> "real", of |-> <<runs[r1].text[1], k>>]

C12_Witness ==
  /\ BothDone
  /\ runs["run_1"].file_path = runs["run_2"].file_path
  /\ runs["run_1"].text = runs["run_2"].text
  /\ NumVectors(runs["run_1"]) = 3
  /\ \A r \in Runs : runs[r].failed_vectors = {}
  /\ Cardinality(namespace) = 3

\* C16, as stated: two runs on documents with different document names write
\* under disjoint sets of vector ids.
C16_DisjointIds ==
  \A r1, r2 \in Runs :
    (/\ runs[r1].pc # "idle"
     /\ runs[r2].pc # "idle"
     /\ basename(runs[r1].file_path) # basename(runs[r2].file_path)) =>
       IdsOf(runs[r1]) \cap IdsOf(runs[r2]) = {}

RECURSIVE Concatenation(_)
Concatenation(cs) ==
  IF cs = <<>> THEN <<>> ELSE Head(cs).content \o Concatenation(Tail(cs))

\* The same without the blank lines that merging put in.
TextPieces(cs) == SelectSeq(Concatenation(cs), LAMBDA p : p.seg # 0)

\* Piece p lies before piece q in the source text.
Before(p, q) == p.seg < q.seg \/ (p.seg = q.seg /\ p.from < q.from)

\* The pieces of a list of chunks lie in the order of the source text.
InSourceOrder(cs) ==
  LET ps == TextPieces(cs) IN
  \A a, b \in 1..Len(ps) : a < b => Before(ps[a], ps[b])

\* The header loop has run in the current call.
SplitDone == chunk_pc \in {"merge", "final", "done"}

\* Segment k is longer than max_tokens tokens.
Oversized(k) == header_docs[k].len \div 4 > chunker.max_tokens

\* The chunks of a list that carry text of segment k.
ChunksOfSegment(cs, k) ==
  {j \in 1..Len(cs) : \E a \in 1..Len(cs[j].content) : cs[j].content[a].seg = k}

\* C21: in every list that chunk builds (after the header loop, during every
\* merge pass, on return) the pieces of text lie in the order of the source
\* document, and the merge passes keep every piece the header loop kept.
C21_SourceOrder ==
  /\ InSourceOrder(preliminary_chunks)
  /\ InSourceOrder(chunks_to_process)
  /\ InSourceOrder(final_chunks)
  /\ SplitDone => TextPieces(chunks_to_process) = TextPieces(preliminary_chunks)
  /\ chunk_pc = "done" => TextPieces(final_chunks) = TextPieces(preliminary_chunks)

C21_Witness ==
  /\ chunk_pc = "done"
  /\ Len(header_docs) = 2
  /\ header_docs[1].len = 3
  /\ header_docs[2].layout = "heading"
  /\ Len(final_chunks) < Len(preliminary_chunks)
  /\ Len(preliminary_chunks) < 1 + Len(split_text(header_docs[2]))

\* C22, as stated: the contents of the returned chunks, one after the other,
\* are a subsequence of the input: each piece of text starts where or after
\* the piece before it ended.
C22_ConcatenationIsSubsequence ==
  chunk_pc = "done" =>
    LET ps == TextPieces(final_chunks) IN
    \A a \in 1..(Len(ps) - 1) :
      \/ ps[a].seg < ps[a + 1].seg
      \/ ps[a].seg = ps[a + 1].seg /\ ps[a].from + ps[a].len <= ps[a + 1].from

\* C22, amended: every piece of text of the returned chunks is a span of one
\* header segment of the input, the pieces start in the order of the source,
\* and a piece repeats at most secondary_chunk_overlap characters of the end
\* of the piece before it.
C22_PiecesAreSpans ==
  chunk_pc = "done" =>
    LET ps == TextPieces(final_chunks) IN
    /\ \A a \in 1..Len(ps) :
         /\ ps[a].seg \in 1..Len(header_docs)
         /\ ps[a].len > 0
         /\ ps[a].from >= 0
         /\ ps[a].from + ps[a].len <= header_docs[ps[a].seg].len
    /\ \A a \in 1..(Len(ps) - 1) :
         \/ ps[a].seg < ps[a + 1].seg
         \/ /\ ps[a].seg = ps[a + 1].seg
            /\ ps[a].from < ps[a + 1].from
            /\ ps[a].from + ps[a].len - ps[a + 1].from
                 <= chunker.secondary_chunk_overlap

C22_Witness ==
  /\ chunk_pc = "done"
  /\ Len(header_docs) = 2
  /\ header_docs[1].layout = "sentences"
  /\ header_docs[2].len = 60
  /\ \E a \in 1..(Len(TextPieces(final_chunks)) - 1) :
       LET p == TextPieces(final_chunks)[a]
           q == TextPieces(final_chunks)[a + 1]
       IN p.seg = q.seg /\ p.from + p.len - q.from = chunker.secondary_chunk_overlap

\* C23: a header segment is split exactly when it has more than max_tokens
\* tokens; no chunk that the header loop makes exceeds max_tokens plus the
\* overlap, and a returned chunk that does was made by a merge.
C23_SizeBound ==
  SplitDone =>
    /\ \A k \in 1..Len(header_docs) :
         IF Oversized(k)
         THEN \A j \in ChunksOfSegment(preliminary_chunks, k) :
                "sub_chunk" \in DOMAIN preliminary_chunks[j].metadata
         ELSE /\ Cardinality(ChunksOfSegment(preliminary_chunks, k)) = 1
              /\ \A j \in ChunksOfSegment(preliminary_chunks, k) :
                   "sub_chunk" \notin DOMAIN preliminary_chunks[j].metadata
    /\ \A j \in 1..Len(preliminary_chunks) :
         preliminary_chunks[j].token_count
           <= chunker.max_tokens + chunker.secondary_chunk_overlap
    /\ \A j \in 1..Len(final_chunks) :
         final_chunks[j].token_count
             > chunker.max_tokens + chunker.secondary_chunk_overlap
           => \E a \in 1..Len(final_chunks[j].content) :
                final_chunks[j].content[a] = BlankLine

C23_Witness ==
  /\ chunk_pc = "done"
  /\ Len(header_docs) = 2
  /\ header_docs[1].len = 4000
  /\ Oversized(2)
  /\ Len(preliminary_chunks) > 2
  /\ "sub_chunk" \notin DOMAIN final_chunks[1].metadata
  /\ final_chunks[1].token_count = chunker.max_tokens

\* C24, as stated: the chunks kept from a segment that was split carry the
\* sub_chunk indices 1, 2, ... : the first of them carries 1.
C24_IndicesStartAtOne ==
  SplitDone =>
    \A k \in 1..Len(header_docs) :
      \A j \in ChunksOfSegment(preliminary_chunks, k) :
        (/\ Oversized(k)
         /\ \A h \in ChunksOfSegment(preliminary_chunks, k) : j <= h)
          => preliminary_chunks[j].metadata["sub_chunk"] = 1

\* C24, amended: a piece of the secondary split with fewer than 5 words is
\* discarded, its span is in no chunk of any list; a piece that is kept
\* carries as sub_chunk its 1-based position among all the pieces of its
\* segment, the discarded ones counted, so the indices of a segment strictly
\* increase in output order and are at least 1.
C24_SubChunkIndices ==
  SplitDone =>
    \A k \in 1..Len(header_docs) :
      Oversized(k) =>
        LET pieces == split_text(header_docs[k])
            kept == {n \in 1..Len(pieces) : WordCount(pieces[n]) >= min_words}
            mine == ChunksOfSegment(preliminary_chunks, k)
        IN /\ Cardinality(mine) = Cardinality(kept)
           /\ \A j \in mine :
                LET n == preliminary_chunks[j].metadata["sub_chunk"] IN
                /\ n \in kept
                /\ preliminary_chunks[j].content
                     = <<Span(k, pieces[n].from, pieces[n].len)>>
           /\ \A j, h \in mine :
                j < h => preliminary_chunks[j].metadata["sub_chunk"]
                           < preliminary_chunks[h].metadata["sub_chunk"]
           /\ \A n \in (1..Len(pieces)) \ kept :
                \A p \in {TextPieces(chunks_to_process)[a] :
                            a \in 1..Len(TextPieces(chunks_to_process))}
                       \cup {TextPieces(final_chunks)[a] :
                               a \in 1..Len(TextPieces(final_chunks))} :
                  p # Span(k, pieces[n].from, pieces[n].len)

C24_Witness ==
  /\ chunk_pc = "done"
  /\ Len(header_docs) = 1
  /\ header_docs[1].layout = "heading"
  /\ header_docs[1].len = 5000
  /\ Len(final_chunks) = Len(split_text(header_docs[1])) - 1
  /\ final_chunks[1].metadata["sub_chunk"] = 2

\* C25: in every list, the token_count of a chunk is the length of the
\* content it carries divided by 4, rounded down, whether the chunk came from
\* the header split, the secondary split or a merge.
C25_TokenCountOfContent ==
  \A cs \in {preliminary_chunks, chunks_to_process, final_chunks} :
    \A j \in 1..Len(cs) : cs[j].token_count = ContentLen(cs[j].content) \div 4

C25_Witness ==
  /\ chunk_pc = "done"
  /\ Len(header_docs) = 2
  /\ header_docs[1].len = 3
  /\ header_docs[2].layout = "sentences"
  /\ Len(final_chunks[1].content) = 3
  /\ final_chunks[1].token_count = 201
  /\ \E j \in 1..Len(final_chunks) : Len(final_chunks[j].content) = 1

InFlight == {j \in 1..Len(tasks) : tasks[j].state = "running"}

Returned == {j \in 1..Len(tasks) : tasks[j].state = "returned"}

\* The four enrichment fields are empty.
EnrichmentEmpty(ec) ==
  /\ ec.contextual_summary = ""
  /\ ec.semantic_tags = <<>>
  /\ ec.key_entities = <<>>
  /\ ec.clause_type = ""

\* The fields enrichment copies from chunk c at position k (0-based).
CarriesChunk(ec, c, k) ==
  /\ ec.content = c.content
  /\ ec.original_metadata = c.metadata
  /\ ec.token_count = c.token_count
  /\ ec.chunk_index = k
  /\ ec.source_document = document_name
  /\ ec.source_section =
       (IF "article" \in DOMAIN c.metadata THEN c.metadata["article"]
        ELSE IF "section" \in DOMAIN c.metadata THEN c.metadata["section"]
        ELSE "")

LLMPath == config.enable_enrichment /\ config.enricher = "llm"

\* C27: a model call that raises, or whose response cannot be parsed, does
\* not leave enrich_chunk as an exception: the call returns an EnrichedChunk
\* that carries the chunk's content, metadata, token count, chunk_index and
\* source fields and has the four enrichment fields empty; the run goes on,
\* and a call of the same batch whose response has the labelled lines keeps
\* its enrichment.
C27_ProviderFailureContained ==
  /\ \A j \in Returned :
       /\ CarriesChunk(tasks[j].result, tasks[j].chunk, tasks[j].chunk_index)
       /\ TryRaises(tasks[j].response) => EnrichmentEmpty(tasks[j].result)
       /\ tasks[j].response = "labelled lines" =>
            /\ tasks[j].result.contextual_summary = "llm summary"
            /\ tasks[j].result.clause_type = "rent_payment"
  /\ (LLMPath /\ enrich_pc # "off") =>
       /\ ~raised /\ returned = 0
       /\ enrich_pc = "done" => Len(enriched) = Len(chunks)

C27_Witness ==
  /\ enrich_pc = "gather"
  /\ \E j, m \in Returned :
       /\ tasks[j].response = "no text"
       /\ EnrichmentEmpty(tasks[j].result)
       /\ tasks[m].response = "labelled lines"
       /\ tasks[m].result.contextual_summary # ""

\* The run has its enriched_chunks.
Enriched == StageBegun("enrich") /\ pc # "done"

VectorsBuilt == StageBegun("upsert")

\* Element k of the enriched list belongs to chunk k.
EnrichedAligned ==
  /\ Len(enriched_chunks) = Len(chunks)
  /\ \A k \in 1..Len(chunks) :
       /\ enriched_chunks[k].chunk_index = k - 1
       /\ enriched_chunks[k].content = chunks[k].content

\* C28, as claimed: on each enrichment path the enriched list is aligned
\* with the chunk list, and the vector '<stem>_chunk_<k>' carries
\* chunk_index k and the text of chunk k.
C28_VectorCarriesChunkText ==
  /\ Enriched => EnrichedAligned
  /\ VectorsBuilt =>
       /\ Len(vectors_to_upsert) = Len(chunks)
       /\ \A k \in 1..Len(chunks) :
            /\ vectors_to_upsert[k].id = <<DocStem, k - 1>>
            /\ vectors_to_upsert[k].metadata.chunk_index = k - 1
            /\ vectors_to_upsert[k].metadata.text = chunks[k].content

\* C28, amended: on each enrichment path the enriched list is aligned with
\* the chunk list, and the vector '<stem>_chunk_<k>' carries chunk_index k
\* and the first 1000 characters of the content of chunk k.
C28_VectorCarriesChunkPrefix ==
  /\ Enriched => EnrichedAligned
  /\ VectorsBuilt =>
       /\ Len(vectors_to_upsert) = Len(chunks)
       /\ \A k \in 1..Len(chunks) :
            LET text == vectors_to_upsert[k].metadata.text
            IN  /\ vectors_to_upsert[k].id = <<DocStem, k - 1>>
                /\ vectors_to_upsert[k].metadata.chunk_index = k - 1
                /\ ContentLen(text) = Min(ContentLen(chunks[k].content), 1000)
                /\ \A a \in 1..Len(text) :
                     /\ text[a].seg = chunks[k].content[a].seg
                     /\ text[a].from = chunks[k].content[a].from
                     /\ text[a].len <= chunks[k].content[a].len

\* Three chunks enriched by the LLM in two batches, the second call of the
\* first batch back before the first, and the vectors built.
C28_Witness ==
  /\ VectorsBuilt
  /\ LLMPath
  /\ Len(chunks) = 3
  /\ returned_order = <<1, 0, 2>>
  /\ vectors_to_upsert[3].metadata.chunk_index = 2
  /\ ContentLen(chunks[3].content) > 1000
  /\ enriched_chunks[1].contextual_summary = ""
  /\ enriched_chunks[2].contextual_summary # ""

EmbedStage ==
  {"embed_loop", "embed_call", "embed_backoff", "embed_delay"}

\* C29: at most batch_size model calls are in flight; the calls of a batch
\* start when every call of the batches before it has returned and been
\* gathered; the loop moves to a following batch only through the sleep, and
\* sleeps only when a batch follows.  The embedding loop moves to a following
\* batch only through its delay, and delays only when a batch follows.
C29_BatchesInTurn ==
  [][/\ Cardinality(InFlight') <= enricher.batch_size
     /\ (InFlight = {} /\ InFlight' # {}) =>
          /\ enrich_pc = "loop"
          /\ Len(enriched) = enrich_i
          /\ \A j \in 1..Len(tasks') : tasks'[j].chunk_index >= enrich_i
     /\ (enrich_i' # enrich_i /\ enrich_i' < Len(chunks)) =>
          /\ enrich_pc = "sleep"
          /\ enrich_i' = enrich_i + enricher.batch_size
     /\ (enrich_pc' = "sleep" /\ enrich_pc # "sleep") =>
          enrich_i + enricher.batch_size < Len(chunks)
     /\ (pc \in EmbedStage /\ i' # i /\ i' < Len(enriched_chunks)) =>
          /\ pc = "embed_delay"
          /\ i' = i + config.embedding_batch_size
     /\ (pc' = "embed_delay" /\ pc # "embed_delay") =>
          i + config.embedding_batch_size < Len(enriched_chunks)]_vars

\* The second embedding batch is called after an LLM enrichment of two
\* batches.
C29_Witness ==
  /\ LLMPath
  /\ enricher.batch_size = 2
  /\ Len(enriched) = 3
  /\ Len(returned_order) = 3
  /\ pc = "embed_call"
  /\ i > 0

\* C30: with the 'none' variant selected, run does not end in the failure
\* result of the missing enricher.
C30_NoneVariantPassesThrough ==
  config.enricher = "none" =>
    ~(pc = "done" /\ returned = 1 /\ ~result.success
      /\ result.error_message = EnrichError)

(***************************************************************************)
(* The result of run (Spec).                                               *)
(***************************************************************************)
ResultReturned == returned = 1

\* The vectors of the upsert batches that succeeded.
VectorsInIndex == Len(vectors_to_upsert) - Len(failed_vectors)

\* C32: the vectors_uploaded of a success result is the number of vectors of
\* the upsert batches that succeeded.
C32_UploadedCountsIndexed ==
  (ResultReturned /\ result.success) =>
    result.vectors_uploaded = VectorsInIndex

Positions(b) == (b.start + 1)..(b.start + Len(b.batch))

\* The batches sent so far are non-empty runs of at most size consecutive
\* items, the same batch at every call for the same start, two different
\* batches share no item, and together they cover the items from the first
\* one on without a gap.
InOrderPartition(sent, items, size) ==
  /\ \A b \in sent :
       /\ Len(b.batch) \in 1..size
       /\ Positions(b) \subseteq 1..Len(items)
       /\ \A k \in 1..Len(b.batch) : b.batch[k] = items[b.start + k]
  /\ \A b1, b2 \in sent :
       IF b1.start = b2.start THEN b1 = b2
       ELSE Positions(b1) \cap Positions(b2) = {}
  /\ \E m \in 0..Len(items) : UNION {Positions(b) : b \in sent} = 1..m

Covers(sent, items) == UNION {Positions(b) : b \in sent} = 1..Len(items)

UpsertResolved == pc = "persist" \/ StageBegun("persist")

\* C38: the embedding batches partition the chunk texts in order, in batches
\* of at most embedding_batch_size, and the upsert batches partition the
\* vectors in order, in batches of at most batch_size; a retry sends the
\* batch of the first attempt again; once a stage is over every item has
\* been sent.
C38_BatchesPartition ==
  /\ StageBegun("embed") =>
       /\ InOrderPartition(embed_sent, texts_to_embed,
                           config.embedding_batch_size)
       /\ EmbeddingResolved => Covers(embed_sent, texts_to_embed)
  /\ StageBegun("upsert") =>
       /\ InOrderPartition(upsert_sent, vectors_to_upsert, batch_size)
       /\ UpsertResolved => Covers(upsert_sent, vectors_to_upsert)

\* Three texts went out in two embedding batches, the first one three times,
\* and three vectors in two upsert batches, the second one three times.
C38_Witness ==
  /\ UpsertResolved
  /\ config.embedding_batch_size = 2
  /\ Cardinality(embed_sent) = 2
  /\ Cardinality(upsert_sent) = 2
  /\ Len(vectors_to_upsert) = 3
  /\ Len(failed_embedding_indices) = 2
  /\ Len(failed_vectors) = 1

(***************************************************************************)
(* Re-ingestion (SpecIndex).                                               *)
(***************************************************************************)
\* The vectors a run builds.
VectorsOf(run) == {RunVector(run, k) : k \in 0..(NumVectors(run) - 1)}

\* Run r is over, it had vectors to upsert and none of its batches failed;
\* the only other runs are runs on the same file that had returned before r
\* began.
CleanLatestRun(r) ==
  /\ runs[r].pc = "done"
  /\ runs[r].failed_vectors = {}
  /\ NumVectors(runs[r]) >= 1
  /\ \A r2 \in Runs \ {r} :
       \/ runs[r2].pc = "idle"
       \/ /\ r2 \in runs[r].earlier
          /\ runs[r2].file_path = runs[r].file_path

\* C36: after a run on document D whose upsert batches all succeeded, the
\* vectors stored under ids with D's stem are exactly the vectors of that
\* run, also when an earlier run on D wrote more of them.
C36_NoStaleVectors ==
  \A r \in Runs :
    CleanLatestRun(r) =>
      {v \in namespace : v.id[1] = stem(runs[r].file_path)} =
        VectorsOf(runs[r])

(***************************************************************************)
(* LeaseVectorStore.delete_by_document (SpecIndex).                        *)
(***************************************************************************)
\* The vectors a pipeline run wrote for a document: run puts the file name
\* under the metadata key document.
WrittenFor(ns, name) == {v \in ns : v.metadata.document = name}

\* C31: when delete_by_document(D) returns, no vector written for D is left
\* in the namespace, the number returned is the number of vectors removed,
\* and the vectors of the other documents are the ones that were there.
C31_DeleteRemovesDocument ==
  [][Len(deletes') > Len(deletes) =>
       LET call == deletes'[Len(deletes')] IN
       /\ WrittenFor(namespace', call.document_name) = {}
       /\ call.returned = Cardinality(namespace \ namespace')
       /\ namespace \ namespace' \subseteq
            WrittenFor(namespace, call.document_name)]_vars

(***************************************************************************)
(* Cleaning and empty texts (SpecCleaning).                                *)
(***************************************************************************)
\* Every line is blank, a boilerplate line, or part of a table-of-contents
\* entry: nothing of the text is meant to survive cleaning.
NoiseOnly(lines) ==
  \A k \in 1..Len(lines) :
    \/ lines[k] \in {"", Initials, PageNumber}
    \/ TocEntryAt(lines, k)

\* chunk has returned.
ChunkReturned == chunk_pc = "done"

\* C34: chunk on an empty text, or on a text that cleaning empties (blank
\* lines, boilerplate lines, table-of-contents entries), returns the empty
\* list, raises nothing and has called no external service.
C34_EmptyTextNoChunks ==
  (ChunkReturned /\ (NoiseOnly(split(raw_text)) \/ cleaned_text = <<>>)) =>
    /\ final_chunks = <<>>
    /\ raised = FALSE
    /\ called = {}

\* chunk returned for a text of a table-of-contents entry, an INITIAL line and
\* a blank line.
C34_Witness ==
  /\ ChunkReturned
  /\ raw_text = join(<<NumberedHeader, PageNumber, Initials, "">>)
  /\ cleaned_text = <<>>
  /\ final_chunks = <<>>

\* The text holds ordinary lines and blank lines only.
BodyAndBlankOnly(lines) == \A k \in 1..Len(lines) : lines[k] \in {Body, ""}

\* No line of the text is the table-of-contents marker.
NoTocMarker(lines) == \A k \in 1..Len(lines) : lines[k] # TocMarker

\* C35: cleaning a text of ordinary and blank lines only collapses the runs
\* of three or more line breaks and leaves the shorter runs of blank lines
\* between lines in place, and the table-of-contents removal leaves a text
\* without a table-of-contents marker as it is.
C35_BlankRunsAndNoToc ==
  chunk_pc # "clean" =>
    /\ BodyAndBlankOnly(split(raw_text)) =>
         cleaned_text = strip_text(sub_newlines(raw_text))
    /\ NoTocMarker(split(raw_text)) => remove_toc(raw_text) = raw_text

(***************************************************************************)
(* The file watcher (SpecWatcher).                                         *)
(***************************************************************************)
\* The step is a call of process_file.
ProcessFileStep == process_count' = process_count + 1

\* The row log_ingestion has added in the step, if it added one.
LoggedRow == ingestion_logs'[Len(ingestion_logs')]

\* C33: when the pipeline returns a success result, process_file moves the
\* file from the input folder to the processed folder, writes a 'success'
\* log row, takes the file off the pending queue and returns a dict with
\* success True; when it returns a failure result, the file stays where it
\* is, a 'failed' row with the error message is written and nothing is
\* queued.
C33_ProcessFileOutcome ==
  [][(ProcessFileStep /\ last_call'.mode = "full") =>
       LET file_name == last_call'.file_name IN
       /\ last_call'.outcome = "success" =>
            /\ last_call'.ended = "returned"
            /\ last_call'.success
            /\ file_name \notin input_folder'
            /\ file_name \in input_folder => file_name \in processed_folder'
            /\ Len(ingestion_logs') = Len(ingestion_logs) + 1
            /\ LoggedRow.document_name = file_name
            /\ LoggedRow.status = "success"
            /\ file_name \notin PendingNames'
       /\ last_call'.outcome = "failure" =>
            /\ last_call'.ended = "returned"
            /\ ~last_call'.success
            /\ input_folder' = input_folder
            /\ processed_folder' = processed_folder
            /\ Len(ingestion_logs') = Len(ingestion_logs) + 1
            /\ LoggedRow.document_name = file_name
            /\ LoggedRow.status = "failed"
            /\ LoggedRow.error_message = last_call'.error
            /\ LoggedRow.error_message # None
            /\ PendingNames' \subseteq PendingNames]_vars

\* C39: every call of process_file returns a dict, whatever the pipeline did
\* (a success result, a failure result, an exception), and the file is not
\* in the pending queue afterwards.
C39_ProcessFileAlwaysReturns ==
  [][ProcessFileStep =>
       /\ last_call'.ended = "returned"
       /\ last_call'.file_name \notin PendingNames']_vars

\* The step is an on_created that queued a file.
QueueingStep == queued_count' = queued_count + 1

\* C40: on_created queues a file only when its extension is supported, it is
\* not a '~$' temporary file, it is not on the startup list and it has no
\* 'success' log row; a file the pipeline has processed with success is not
\* queued again before its logs are deleted; no file name is twice in the
\* queue.
C40_QueueingRules ==
  [][/\ QueueingStep =>
          /\ Supported(last_queued')
          /\ ~IsTemporary(last_queued')
          /\ last_queued' \notin startup_files
          /\ ~is_document_processed(last_queued')
          /\ last_queued' \notin succeeded
     /\ \A p, q \in pending_files' : p.file_name = q.file_name => p = q]_vars
====
